---- MODULE Spec2Model ----
(***************************************************************************)
(* Session synchronization engine of the voxel puzzle: the WebSocket       *)
(* server (server.js), the client store (store.ts) and the pointer         *)
(* handlers of PuzzlePiece.tsx that drive it.                              *)
(*                                                                         *)
(* Positions are the code's 3-element arrays [x, y, z]; the model writes   *)
(* them as tuples <<x, y, z>>, so position[0], [1], [2] of the code are    *)
(* pos[1], pos[2], pos[3] here.  Coordinates are integers.                 *)
(***************************************************************************)
EXTENDS Integers, Sequences, FiniteSets, TLC

VARIABLES
    sessions,             \* server: the sessions object, in insertion order
    currentSessionId,     \* server: per connection closure variable (0 = null)
    wsState,              \* readyState of each socket: "new", "open", "closed"
    toServer,             \* messages in flight, client -> server, per socket
    toClient,             \* messages in flight, server -> client, per socket
    pieceStates,          \* client store: the mirror, per client
    draggedPieceId,       \* client store, per client
    snapCandidateGroupId, \* client store, per client
    nDrags,               \* number of dragStart calls made so far
    nMoves,               \* number of dragMove calls made so far
    currentView,          \* client store, per client: "lobby" or "game"
    isConnecting,         \* client store, per client
    pendingServerStates,  \* client store, per client (<< >> for null and {})
    initMap,              \* GameView, per client: the initMap calls in flight,
                          \* each with the pendingServerStates it captured
    nJoins,               \* number of joinSession calls made so far
    nCloses,              \* number of sockets closed so far
    socket,               \* SocketService: this.socket (0 = null), else the
                          \* index of a WebSocket in readyState
    readyState,           \* readyState of every WebSocket created so far
    timers,               \* SocketService: pending setTimeout(connect) calls
    listeners,            \* SocketService: number of subscribed callbacks
    calls,                \* callbacks the last socket.onmessage has run
    nCalls,               \* number of calls made to SocketService so far
    MOCK_SESSIONS,        \* mockBackend: the simulated database
    joining,              \* mockBackend: joinSession calls awaiting the delay
    returned              \* mockBackend: what the last joinSession returned

svcVars == <<socket, readyState, timers, listeners, calls, nCalls>>
mockVars == <<MOCK_SESSIONS, joining, returned>>

vars == <<sessions, currentSessionId, wsState, toServer, toClient,
          pieceStates, draggedPieceId, snapCandidateGroupId, nDrags, nMoves,
          currentView, isConnecting, pendingServerStates, initMap, nJoins, nCloses,
          svcVars, mockVars>>

srvVars == <<sessions, currentSessionId, wsState, toClient>>
storeVars == <<currentView, isConnecting, pendingServerStates, initMap, nJoins, nCloses>>
viewVars == <<currentView, isConnecting, pendingServerStates, initMap, nJoins, nCloses,
              svcVars, mockVars>>
cliVars == <<pieceStates, draggedPieceId, snapCandidateGroupId, nDrags, nMoves,
             currentView, isConnecting, pendingServerStates, initMap, nJoins, nCloses,
             svcVars, mockVars>>

----------------------------------------------------------------------------
(* Bounds *)

\* dragStart calls, all clients together
MaxDrags == 3
\* dragMove calls, all clients together
MaxMoves == 3
\* largest x coordinate the server-only specifications let a position reach
MaxCoord == 1

\* the sockets, one per client
Sockets == {1, 2}
Clients == Sockets

Null == "null"

----------------------------------------------------------------------------
(* Pieces and regions *)

\* region ids in the order the segmentation returns them
RegionOrder == <<"P1", "P2", "P3", "P4">>
AllPieces == {RegionOrder[i] : i \in 1..Len(RegionOrder)}

\* Region.center of each region, in grid cells (x, y)
center == [p \in AllPieces |->
             CASE p = "P1" -> [x |-> 0, y |-> 0]
               [] p = "P2" -> [x |-> 2, y |-> 0]
               [] p = "P3" -> [x |-> 2, y |-> 2]
               [] p = "P4" -> [x |-> 0, y |-> 2]]

\* the spawn position setPuzzleRegions derives from config.scatterSeed for
\* region p: x, z in [-30, 30), y in [10, 25)
scatter == [p \in AllPieces |->
              CASE p = "P1" -> <<0, 10, 0>>
                [] p = "P2" -> <<6, 12, 0>>
                [] p = "P3" -> <<10, 10, 2>>
                [] p = "P4" -> <<-12, 11, 2>>]

Add(a, b) == <<a[1] + b[1], a[2] + b[2], a[3] + b[3]>>

NewPieceState(id, pos) ==
    [id |-> id, position |-> pos, groupId |-> id, isSolved |-> FALSE]

\* new Set(Object.values(states).map(p => p.groupId))
uniqueGroups(states) == {states[p].groupId : p \in DOMAIN states}

----------------------------------------------------------------------------
(* Server: ws.on('message') and its helpers *)

SessionStatusOf(s, i) ==
    [sessionId |-> i, mapId |-> s.mapId, difficulty |-> s.difficulty,
     activePlayers |-> Cardinality(s.players), status |-> s.status]

\* the list broadcastList and the connection handler build
sessionList(ss) == [i \in 1..Len(ss) |-> SessionStatusOf(ss[i], i)]

\* broadcastList: SESSION_LIST to every open client of the server
broadcastList(out, ss, st) ==
    [w \in Sockets |->
        IF st[w] = "open"
        THEN Append(out[w], [type |-> "SESSION_LIST", sessions |-> sessionList(ss)])
        ELSE out[w]]

\* FindSession looking only at the sessions that have a player
FindSessionWithPlayers(ss, mapId, difficulty) ==
    LET hits == {i \in 1..Len(ss) : /\ ss[i].mapId = mapId
                                    /\ ss[i].difficulty = difficulty
                                    /\ ss[i].players # {}}
    IN IF hits = {} THEN 0 ELSE CHOOSE i \in hits : \A j \in hits : i <= j

\* Object.values(sessions).find(s => s.mapId === mapId && s.difficulty === difficulty)
FindSession(ss, mapId, difficulty) ==
    LET hits == {i \in 1..Len(ss) : ss[i].mapId = mapId /\ ss[i].difficulty = difficulty}
    IN IF hits = {} THEN 0 ELSE CHOOSE i \in hits : \A j \in hits : i <= j

\* ApplyMove storing a fresh PieceState whether or not the piece has one
ApplyMoveAlwaysCreating(ps, pieceId, pos) ==
    [p \in DOMAIN ps \cup {pieceId} |->
        IF p = pieceId THEN NewPieceState(pieceId, pos) ELSE ps[p]]

\* MOVE_PIECE: create the PieceState lazily, or overwrite its position
ApplyMove(ps, pieceId, pos) ==
    IF pieceId \notin DOMAIN ps
    THEN [p \in DOMAIN ps \cup {pieceId} |->
            IF p = pieceId THEN NewPieceState(pieceId, pos) ELSE ps[p]]
    ELSE [ps EXCEPT ![pieceId].position = pos]

\* ApplyMerge relabelling only the piece that names the source group
ApplyMergeAnchorOnly(ps, sourceGroupId, targetGroupId, alignOffset) ==
    [p \in DOMAIN ps |->
        IF ps[p].groupId = sourceGroupId /\ p = sourceGroupId
        THEN [ps[p] EXCEPT !.groupId = targetGroupId,
                           !.position = Add(ps[p].position, alignOffset)]
        ELSE ps[p]]

\* ApplyMerge translating the pieces of the target group as well
ApplyMergeBothGroups(ps, sourceGroupId, targetGroupId, alignOffset) ==
    [p \in DOMAIN ps |->
        IF ps[p].groupId \in {sourceGroupId, targetGroupId}
        THEN [ps[p] EXCEPT !.groupId = targetGroupId,
                           !.position = Add(ps[p].position, alignOffset)]
        ELSE ps[p]]

\* MERGE_GROUP: relabel and translate every piece of the source group
ApplyMerge(ps, sourceGroupId, targetGroupId, alignOffset) ==
    [p \in DOMAIN ps |->
        IF ps[p].groupId = sourceGroupId
        THEN [ps[p] EXCEPT !.groupId = targetGroupId,
                           !.position = Add(ps[p].position, alignOffset)]
        ELSE ps[p]]

\* createSessionConfig: the random factor and scatter seed drawn for a new
\* session, a value no earlier session has
createSessionConfig(ss) == Len(ss) + 1

JoinSession(ws, msg, out) ==
    LET found == FindSession(sessions, msg.mapId, msg.difficulty)
        ss0 == IF found = 0
               THEN Append(sessions, [mapId |-> msg.mapId, difficulty |-> msg.difficulty,
                                      players |-> {}, pieceStates |-> << >>,
                                      config |-> createSessionConfig(sessions),
                                      status |-> "active"])
               ELSE sessions
        id == IF found = 0 THEN Len(ss0) ELSE found
        ss1 == [ss0 EXCEPT ![id].players = @ \cup {ws}]
        joined == [type |-> "SESSION_JOINED",
                   session |-> SessionStatusOf(ss1[id], id),
                   config |-> ss1[id].config,
                   currentStates |-> ss1[id].pieceStates]
        out1 == [out EXCEPT ![ws] = Append(@, joined)]
    IN /\ sessions' = ss1
       /\ currentSessionId' = [currentSessionId EXCEPT ![ws] = id]
       /\ toClient' = broadcastList(out1, ss1, wsState)

MovePiece(ws, msg, out) ==
    LET id == currentSessionId[ws]
        ps1 == ApplyMove(sessions[id].pieceStates, msg.pieceId, msg.position)
        moved == [type |-> "PIECE_MOVED", pieceId |-> msg.pieceId,
                  position |-> msg.position, groupId |-> ps1[msg.pieceId].groupId]
    IN /\ sessions' = [sessions EXCEPT ![id].pieceStates = ps1]
       /\ toClient' = [w \in Sockets |->
                         IF w \in sessions[id].players /\ w # ws /\ wsState[w] = "open"
                         THEN Append(out[w], moved) ELSE out[w]]
       /\ UNCHANGED currentSessionId

\* MergeGroup sending the delta ahead of what is already on its way to the
\* other connections
MergeGroupJumpingQueue(ws, msg, out) ==
    LET id == currentSessionId[ws]
        ps1 == ApplyMerge(sessions[id].pieceStates, msg.sourceGroupId,
                          msg.targetGroupId, msg.alignOffset)
        merged == [type |-> "GROUP_MERGED", sourceGroupId |-> msg.sourceGroupId,
                   targetGroupId |-> msg.targetGroupId, alignOffset |-> msg.alignOffset]
    IN /\ sessions' = [sessions EXCEPT ![id].pieceStates = ps1]
       /\ toClient' = [w \in Sockets |->
                         IF w \in sessions[id].players /\ wsState[w] = "open"
                         THEN IF w = ws THEN Append(out[w], merged)
                              ELSE <<merged>> \o out[w]
                         ELSE out[w]]
       /\ UNCHANGED currentSessionId

MergeGroup(ws, msg, out) ==
    LET id == currentSessionId[ws]
        ps1 == ApplyMerge(sessions[id].pieceStates, msg.sourceGroupId,
                          msg.targetGroupId, msg.alignOffset)
        merged == [type |-> "GROUP_MERGED", sourceGroupId |-> msg.sourceGroupId,
                   targetGroupId |-> msg.targetGroupId, alignOffset |-> msg.alignOffset]
    IN /\ sessions' = [sessions EXCEPT ![id].pieceStates = ps1]
       /\ toClient' = [w \in Sockets |->
                         IF w \in sessions[id].players /\ wsState[w] = "open"
                         THEN Append(out[w], merged) ELSE out[w]]
       /\ UNCHANGED currentSessionId

\* handleDisconnect forgetting the piece states of a session left empty
handleDisconnectResetting(ws, out, st) ==
    LET id == currentSessionId[ws]
        ss1 == [sessions EXCEPT ![id].players = @ \ {ws},
                                ![id].pieceStates =
                                    IF sessions[id].players \ {ws} = {} THEN << >> ELSE @]
    IN IF id # 0
       THEN /\ sessions' = ss1
            /\ currentSessionId' = [currentSessionId EXCEPT ![ws] = 0]
            /\ toClient' = broadcastList(out, ss1, st)
       ELSE /\ toClient' = out
            /\ UNCHANGED <<sessions, currentSessionId>>

handleDisconnect(ws, out, st) ==
    LET id == currentSessionId[ws]
        ss1 == [sessions EXCEPT ![id].players = @ \ {ws}]
    IN IF id # 0
       THEN /\ sessions' = ss1
            /\ currentSessionId' = [currentSessionId EXCEPT ![ws] = 0]
            /\ toClient' = broadcastList(out, ss1, st)
       ELSE /\ toClient' = out
            /\ UNCHANGED <<sessions, currentSessionId>>

\* ws.on('message'): the handler applied to one parsed message; out is the
\* outbound traffic the sends of the handler are appended to
OnMessage(ws, msg, out) ==
    CASE msg.type = "JOIN_SESSION" -> JoinSession(ws, msg, out)
      [] msg.type = "MOVE_PIECE" /\ currentSessionId[ws] # 0 -> MovePiece(ws, msg, out)
      [] msg.type = "MERGE_GROUP" /\ currentSessionId[ws] # 0 -> MergeGroup(ws, msg, out)
      [] msg.type = "LEAVE_SESSION" -> handleDisconnect(ws, out, wsState)
      [] OTHER -> /\ toClient' = out
                  /\ UNCHANGED <<sessions, currentSessionId>>

\* wss.on('connection'): a new socket is sent the session list
OnConnection(ws, out) ==
    /\ wsState[ws] = "new"
    /\ wsState' = [wsState EXCEPT ![ws] = "open"]
    /\ currentSessionId' = [currentSessionId EXCEPT ![ws] = 0]
    /\ toClient' = [out EXCEPT ![ws] =
                      Append(@, [type |-> "SESSION_LIST", sessions |-> sessionList(sessions)])]
    /\ UNCHANGED sessions

\* ws.on('close')
OnClose(ws, out) ==
    /\ wsState[ws] = "open"
    /\ wsState' = [wsState EXCEPT ![ws] = "closed"]
    /\ handleDisconnect(ws, out, wsState')

----------------------------------------------------------------------------
(* Client: the store (store.ts) and the pointer handlers that call it *)

\* the pieces of the puzzle the clients play
Pieces == {"P1", "P2", "P3"}

\* puzzleRegions (ids), as ImageProcessor.process returns them
puzzleRegions == SelectSeq(RegionOrder, LAMBDA p : p \in Pieces)

SNAP_DISTANCE == 4

\* the pointer deltas handlePointerMove hands to dragMove: [deltaX, 0, deltaZ]
\* with |deltaX| < 10 and |deltaZ| < 10
Deltas == {<<5, 0, 0>>, <<-5, 0, 0>>}

\* Object.values(states): the mirror's records in key insertion order, which
\* setPuzzleRegions makes the order of the regions
Values(states) == SelectSeq(puzzleRegions, LAMBDA p : p \in DOMAIN states)

\* Object.values(states).filter(p => p.groupId === g)
GroupPieces(states, g) == SelectSeq(Values(states), LAMBDA p : states[p].groupId = g)

\* Object.values(states).filter(p => p.groupId !== g)
OtherPieces(states, g) == SelectSeq(Values(states), LAMBDA p : states[p].groupId # g)

\* the database mockBackend.ts starts with
InitialMockSessions ==
    << [mapId |-> "caloris", difficulty |-> "medium", activePlayers |-> 2,
        status |-> "active"],
       [mapId |-> "borealis", difficulty |-> "hard", activePlayers |-> 1,
        status |-> "active"] >>

\* the service after initSocket has connected and subscribed once
ServiceConnected ==
    /\ socket = 1
    /\ readyState = <<"OPEN">>
    /\ timers = 0
    /\ listeners = 1
    /\ calls = 0
    /\ nCalls = 0

\* the mock backend with no joinSession in progress
MockIdle ==
    /\ MOCK_SESSIONS = InitialMockSessions
    /\ joining = << >>
    /\ returned = 0

\* socketService.send keeping the message for a socket that is not open
SendQueued(c, msgs) ==
    toServer' = [toServer EXCEPT ![c] = @ \o msgs]

\* socketService.send: the message is written only to an open socket
Send(c, msgs) ==
    toServer' = [toServer EXCEPT ![c] = IF wsState[c] = "open" THEN @ \o msgs ELSE @]

\* setPuzzleRegions scattering every piece, whatever the server sent
InitialStatesScattered(currentServerStates) ==
    [p \in Pieces |-> NewPieceState(p, scatter[p])]

\* setPuzzleRegions: server state where the server has one, else the spawn
\* position derived from the scatter seed
InitialStates(currentServerStates) ==
    [p \in Pieces |->
        IF p \in DOMAIN currentServerStates
        THEN currentServerStates[p]
        ELSE NewPieceState(p, scatter[p])]

\* dist < SNAP_DISTANCE for the pair (mover, target) of dragMove, squared
SnapError2(states, mover, target) ==
    LET idealDiffX == center[mover].x - center[target].x
        idealDiffY == center[mover].y - center[target].y
        currentDiffX == states[mover].position[1] - states[target].position[1]
        currentDiffZ == states[mover].position[3] - states[target].position[3]
    IN (currentDiffX - idealDiffX) * (currentDiffX - idealDiffX)
       + (currentDiffZ - idealDiffY) * (currentDiffZ - idealDiffY)

\* the snap candidate taken from the last pair closer than SNAP_DISTANCE
SnapCandidateLast(states, activeGroupId) ==
    LET movingPieces == GroupPieces(states, activeGroupId)
        otherPieces == OtherPieces(states, activeGroupId)
        hits == {pr \in (1..Len(movingPieces)) \X (1..Len(otherPieces)) :
                    SnapError2(states, movingPieces[pr[1]], otherPieces[pr[2]])
                        < SNAP_DISTANCE * SNAP_DISTANCE}
        last == CHOOSE pr \in hits :
                    \A q \in hits : pr[1] > q[1] \/ (pr[1] = q[1] /\ pr[2] >= q[2])
    IN IF hits = {} THEN Null ELSE states[otherPieces[last[2]]].groupId

\* the snap candidate dragMove finds: the group of the target of the first
\* pair (movers outer, targets inner) closer than SNAP_DISTANCE, else null
SnapCandidate(states, activeGroupId) ==
    LET movingPieces == GroupPieces(states, activeGroupId)
        otherPieces == OtherPieces(states, activeGroupId)
        hits == {pr \in (1..Len(movingPieces)) \X (1..Len(otherPieces)) :
                    SnapError2(states, movingPieces[pr[1]], otherPieces[pr[2]])
                        < SNAP_DISTANCE * SNAP_DISTANCE}
        first == CHOOSE pr \in hits :
                    \A q \in hits : pr[1] < q[1] \/ (pr[1] = q[1] /\ pr[2] <= q[2])
    IN IF hits = {} THEN Null ELSE states[otherPieces[first[2]]].groupId

dragStart(c, id) ==
    /\ draggedPieceId' = [draggedPieceId EXCEPT ![c] = id]
    /\ UNCHANGED <<pieceStates, snapCandidateGroupId, toServer>>

\* dragMove translating the dragged piece alone
dragMovePieceOnly(c, delta) ==
    LET states == pieceStates[c]
        id == draggedPieceId[c]
        newStates == [states EXCEPT ![id].position = Add(@, delta)]
    IN /\ id # Null
       /\ pieceStates' = [pieceStates EXCEPT ![c] = newStates]
       /\ snapCandidateGroupId' =
            [snapCandidateGroupId EXCEPT ![c] = SnapCandidate(newStates, states[id].groupId)]
       /\ Send(c, << [type |-> "MOVE_PIECE", pieceId |-> id,
                      position |-> newStates[id].position] >>)
       /\ UNCHANGED draggedPieceId

dragMove(c, delta) ==
    LET states == pieceStates[c]
        activeGroupId == states[draggedPieceId[c]].groupId
        movingPieces == GroupPieces(states, activeGroupId)
        newStates == [p \in DOMAIN states |->
                        IF states[p].groupId = activeGroupId
                        THEN [states[p] EXCEPT !.position = Add(@, delta)]
                        ELSE states[p]]
        moves == [i \in 1..Len(movingPieces) |->
                    [type |-> "MOVE_PIECE", pieceId |-> movingPieces[i],
                     position |-> newStates[movingPieces[i]].position]]
    IN /\ draggedPieceId[c] # Null
       /\ pieceStates' = [pieceStates EXCEPT ![c] = newStates]
       /\ snapCandidateGroupId' =
            [snapCandidateGroupId EXCEPT ![c] = SnapCandidate(newStates, activeGroupId)]
       /\ Send(c, moves)
       /\ UNCHANGED draggedPieceId

\* the alignment offset without the vertical component
AlignOffsetHorizontal(states, movingPieces, targetPieces) ==
    IF Len(movingPieces) = 0 \/ Len(targetPieces) = 0
    THEN <<0, 0, 0>>
    ELSE LET mover == movingPieces[1]
             target == targetPieces[1]
             idealX == states[target].position[1] + (center[mover].x - center[target].x)
             idealZ == states[target].position[3] + (center[mover].y - center[target].y)
         IN <<idealX - states[mover].position[1], 0, idealZ - states[mover].position[3]>>

\* the alignment offset dragEnd computes from the first mover and the first
\* target piece (every piece of the mirror has a region)
AlignOffset(states, movingPieces, targetPieces) ==
    IF Len(movingPieces) = 0 \/ Len(targetPieces) = 0
    THEN <<0, 0, 0>>
    ELSE LET mover == movingPieces[1]
             target == targetPieces[1]
             idealX == states[target].position[1] + (center[mover].x - center[target].x)
             idealZ == states[target].position[3] + (center[mover].y - center[target].y)
             idealY == states[target].position[2]
         IN <<idealX - states[mover].position[1],
              idealY - states[mover].position[2],
              idealZ - states[mover].position[3]>>

\* the completion transition: one group left, every piece solved and on the floor
Solve(states) ==
    [p \in DOMAIN states |-> [states[p] EXCEPT !.isSolved = TRUE, !.position[2] = 0]]

\* the relabel of the client without the translation
RelabelInPlace(states, sourceGroupId, targetGroupId, offset) ==
    [p \in DOMAIN states |->
        IF states[p].groupId = sourceGroupId
        THEN [states[p] EXCEPT !.groupId = targetGroupId]
        ELSE states[p]]

\* the translate-and-relabel of the client (dragEnd and GROUP_MERGED)
Relabel(states, sourceGroupId, targetGroupId, offset) ==
    [p \in DOMAIN states |->
        IF states[p].groupId = sourceGroupId
        THEN [states[p] EXCEPT !.groupId = targetGroupId,
                               !.position = Add(states[p].position, offset)]
        ELSE states[p]]

CheckCompletion(states) ==
    IF Cardinality(uniqueGroups(states)) = 1 THEN Solve(states) ELSE states

\* dragEnd sending the merge with source and target exchanged
dragEndExchanged(c) ==
    LET states == pieceStates[c]
        candidate == snapCandidateGroupId[c]
        activeGroupId == states[draggedPieceId[c]].groupId
        movingPieces == GroupPieces(states, activeGroupId)
        targetPieces == GroupPieces(states, candidate)
        offset == AlignOffset(states, movingPieces, targetPieces)
        merged == Relabel(states, activeGroupId, candidate, offset)
    IN /\ draggedPieceId[c] # Null
       /\ IF candidate # Null
          THEN /\ pieceStates' = [pieceStates EXCEPT ![c] = CheckCompletion(merged)]
               /\ Send(c, << [type |-> "MERGE_GROUP", sourceGroupId |-> candidate,
                              targetGroupId |-> activeGroupId, alignOffset |-> offset] >>)
          ELSE UNCHANGED <<pieceStates, toServer>>
       /\ draggedPieceId' = [draggedPieceId EXCEPT ![c] = Null]
       /\ snapCandidateGroupId' = [snapCandidateGroupId EXCEPT ![c] = Null]

dragEnd(c) ==
    LET states == pieceStates[c]
        candidate == snapCandidateGroupId[c]
        activeGroupId == states[draggedPieceId[c]].groupId
        movingPieces == GroupPieces(states, activeGroupId)
        targetPieces == GroupPieces(states, candidate)
        offset == AlignOffset(states, movingPieces, targetPieces)
        merged == Relabel(states, activeGroupId, candidate, offset)
    IN /\ draggedPieceId[c] # Null
       /\ IF candidate # Null
          THEN /\ pieceStates' = [pieceStates EXCEPT ![c] = CheckCompletion(merged)]
               /\ Send(c, << [type |-> "MERGE_GROUP", sourceGroupId |-> activeGroupId,
                              targetGroupId |-> candidate, alignOffset |-> offset] >>)
          ELSE UNCHANGED <<pieceStates, toServer>>
       /\ draggedPieceId' = [draggedPieceId EXCEPT ![c] = Null]
       /\ snapCandidateGroupId' = [snapCandidateGroupId EXCEPT ![c] = Null]

\* the socket listener of initSocket, applied to one server message
OnPieceMoved(c, msg) ==
    LET states == pieceStates[c]
    IN /\ pieceStates' =
            [pieceStates EXCEPT ![c] =
                IF draggedPieceId[c] = msg.pieceId \/ msg.pieceId \notin DOMAIN states
                THEN states
                ELSE [states EXCEPT ![msg.pieceId].position = msg.position,
                                    ![msg.pieceId].groupId = msg.groupId]]
       /\ UNCHANGED <<draggedPieceId, snapCandidateGroupId>>

OnGroupMerged(c, msg) ==
    /\ pieceStates' =
         [pieceStates EXCEPT ![c] =
            CheckCompletion(Relabel(@, msg.sourceGroupId, msg.targetGroupId,
                                    msg.alignOffset))]
    /\ UNCHANGED <<draggedPieceId, snapCandidateGroupId>>

\* SESSION_JOINED: the session, its config and its piece states are kept
\* for GameView, and the view becomes the game
OnSessionJoined(c, msg) ==
    /\ pendingServerStates' = [pendingServerStates EXCEPT ![c] = msg.currentStates]
    /\ currentView' = [currentView EXCEPT ![c] = "game"]
    /\ isConnecting' = [isConnecting EXCEPT ![c] = FALSE]
    /\ UNCHANGED <<pieceStates, draggedPieceId, snapCandidateGroupId, initMap,
                   nJoins, nCloses>>

Listener(c, msg) ==
    CASE msg.type = "PIECE_MOVED" -> OnPieceMoved(c, msg) /\ UNCHANGED storeVars
      [] msg.type = "GROUP_MERGED" -> OnGroupMerged(c, msg) /\ UNCHANGED storeVars
      [] msg.type = "SESSION_JOINED" -> OnSessionJoined(c, msg)
      [] OTHER -> UNCHANGED <<pieceStates, draggedPieceId, snapCandidateGroupId,
                              storeVars>>

\* GameView: isComplete (the view is loaded and has its regions)
isComplete(c) ==
    /\ Len(Values(pieceStates[c])) > 0
    /\ Cardinality(uniqueGroups(pieceStates[c])) = 1
    /\ pieceStates[c][Values(pieceStates[c])[1]].isSolved

----------------------------------------------------------------------------
(* The two clients and the server, joined to one session *)

\* PuzzlePiece.handlePointerDown on piece p
PointerDown(c, p) ==
    /\ nDrags < MaxDrags
    /\ draggedPieceId[c] = Null
    /\ p \in DOMAIN pieceStates[c]
    /\ ~pieceStates[c][p].isSolved
    /\ dragStart(c, p)
    /\ nDrags' = nDrags + 1
    /\ UNCHANGED <<srvVars, nMoves, viewVars>>

\* PuzzlePiece.handlePointerMove on the piece that holds the pointer capture
PointerMove(c, delta) ==
    /\ nMoves < MaxMoves
    /\ draggedPieceId[c] # Null
    /\ dragMove(c, delta)
    /\ nMoves' = nMoves + 1
    /\ UNCHANGED <<srvVars, nDrags, viewVars>>

\* PuzzlePiece.handlePointerUp on the piece that holds the pointer capture
PointerUp(c) ==
    /\ draggedPieceId[c] # Null
    /\ ~pieceStates[c][draggedPieceId[c]].isSolved
    /\ dragEnd(c)
    /\ UNCHANGED <<srvVars, nDrags, nMoves, viewVars>>

\* the server takes the next message of a socket
ServerReceive(ws) ==
    /\ wsState[ws] = "open"
    /\ toServer[ws] # << >>
    /\ OnMessage(ws, Head(toServer[ws]), toClient)
    /\ toServer' = [toServer EXCEPT ![ws] = Tail(@)]
    /\ UNCHANGED <<wsState, cliVars>>

\* socket.onmessage of a client: the next server message reaches the listener
ClientReceive(c) ==
    /\ toClient[c] # << >>
    /\ Listener(c, Head(toClient[c]))
    /\ toClient' = [toClient EXCEPT ![c] = Tail(@)]
    /\ UNCHANGED <<sessions, currentSessionId, wsState, toServer, nDrags, nMoves,
                   svcVars, mockVars>>

TheMap == "mercury_beethoven"
TheDifficulty == "medium"

\* both clients have joined a fresh session and built their mirrors
Init ==
    /\ sessions = << [mapId |-> TheMap, difficulty |-> TheDifficulty,
                      players |-> Clients, pieceStates |-> << >>,
                      config |-> 1, status |-> "active"] >>
    /\ currentSessionId = [w \in Sockets |-> 1]
    /\ wsState = [w \in Sockets |-> "open"]
    /\ toServer = [w \in Sockets |-> << >>]
    /\ toClient = [w \in Sockets |-> << >>]
    /\ pieceStates = [c \in Clients |-> InitialStates(<< >>)]
    /\ draggedPieceId = [c \in Clients |-> Null]
    /\ snapCandidateGroupId = [c \in Clients |-> Null]
    /\ nDrags = 0
    /\ nMoves = 0
    /\ currentView = [c \in Clients |-> "game"]
    /\ isConnecting = [c \in Clients |-> FALSE]
    /\ pendingServerStates = [c \in Clients |-> << >>]
    /\ initMap = [c \in Clients |-> << >>]
    /\ nJoins = 0
    /\ nCloses = 0
    /\ ServiceConnected
    /\ MockIdle

Next ==
    \/ \E c \in Clients, p \in Pieces : PointerDown(c, p)
    \/ \E c \in Clients, delta \in Deltas : PointerMove(c, delta)
    \/ \E c \in Clients : PointerUp(c)
    \/ \E ws \in Sockets : ServerReceive(ws)
    \/ \E c \in Clients : ClientReceive(c)

Spec == Init /\ [][Next]_vars

----------------------------------------------------------------------------
(* The server alone, driven by the messages any connection may send *)

MapIds == {TheMap}
Difficulties == {TheDifficulty}

\* the pieces, positions and offsets the messages of this specification name
SrvPieces == {"P1", "P2", "P3"}
SrvPositions == {<<0, 10, 0>>, <<1, 9, 2>>}
SrvOffsets == {<<0, 0, 0>>, <<1, -1, 2>>}

JoinMessages ==
    {[type |-> "JOIN_SESSION", mapId |-> m, difficulty |-> d] :
        m \in MapIds, d \in Difficulties}
MoveMessages(pieces, positions) ==
    {[type |-> "MOVE_PIECE", pieceId |-> p, position |-> pos] :
        p \in pieces, pos \in positions}
MergeMessages(pieces, offsets) ==
    {[type |-> "MERGE_GROUP", sourceGroupId |-> s, targetGroupId |-> t,
      alignOffset |-> o] : s \in pieces, t \in pieces, o \in offsets}
LeaveMessages == {[type |-> "LEAVE_SESSION"]}

SrvMessages ==
    JoinMessages \cup MoveMessages(SrvPieces, SrvPositions)
        \cup MergeMessages(SrvPieces, SrvOffsets) \cup LeaveMessages

EmptyOut == [w \in Sockets |-> << >>]

\* the x coordinate of every server PieceState is at most MaxCoord
InBounds(ss) ==
    \A i \in 1..Len(ss) : \A p \in DOMAIN ss[i].pieceStates :
        ss[i].pieceStates[p].position[1] <= MaxCoord

\* the client side is not part of this specification
NoClients ==
    /\ toServer = [w \in Sockets |-> << >>]
    /\ pieceStates = [c \in Clients |-> << >>]
    /\ draggedPieceId = [c \in Clients |-> Null]
    /\ snapCandidateGroupId = [c \in Clients |-> Null]
    /\ nDrags = 0
    /\ nMoves = 0
    /\ currentView = [c \in Clients |-> "lobby"]
    /\ isConnecting = [c \in Clients |-> FALSE]
    /\ pendingServerStates = [c \in Clients |-> << >>]
    /\ initMap = [c \in Clients |-> << >>]
    /\ nJoins = 0
    /\ nCloses = 0
    /\ ServiceConnected
    /\ MockIdle

ServerInit ==
    /\ sessions = << >>
    /\ currentSessionId = [w \in Sockets |-> 0]
    /\ wsState = [w \in Sockets |-> "new"]
    /\ toClient = EmptyOut
    /\ NoClients

\* toClient holds what the last handler sent: earlier traffic has been delivered
SrvConnect(ws) ==
    /\ OnConnection(ws, EmptyOut)
    /\ UNCHANGED <<toServer, cliVars>>

SrvMessage(ws, msg) ==
    /\ wsState[ws] = "open"
    /\ OnMessage(ws, msg, EmptyOut)
    /\ InBounds(sessions')
    /\ UNCHANGED <<wsState, toServer, cliVars>>

SrvClose(ws) ==
    /\ OnClose(ws, EmptyOut)
    /\ UNCHANGED <<toServer, cliVars>>

ServerNext ==
    \/ \E ws \in Sockets : SrvConnect(ws)
    \/ \E ws \in Sockets, msg \in SrvMessages : SrvMessage(ws, msg)
    \/ \E ws \in Sockets : SrvClose(ws)

ServerSpec == ServerInit /\ [][ServerNext]_vars

----------------------------------------------------------------------------
(* The grouping model: the merges of one session whose four pieces have   *)
(* each been moved once, so that each is a group of its own               *)

GrpPieces == {"P1", "P2", "P3", "P4"}
GrpOffsets == {<<1, 0, 0>>}

GroupInit ==
    /\ sessions = << [mapId |-> TheMap, difficulty |-> TheDifficulty,
                      players |-> Sockets,
                      pieceStates |-> [p \in GrpPieces |-> NewPieceState(p, <<0, 10, 0>>)],
                      config |-> 1, status |-> "active"] >>
    /\ currentSessionId = [w \in Sockets |-> 1]
    /\ wsState = [w \in Sockets |-> "open"]
    /\ toClient = EmptyOut
    /\ NoClients

GroupNext ==
    \E ws \in Sockets, msg \in MergeMessages(GrpPieces, GrpOffsets) : SrvMessage(ws, msg)

GroupSpec == GroupInit /\ [][GroupNext]_vars

----------------------------------------------------------------------------
(* Properties *)

\* the authoritative PieceStates of the session a connection is in
ServerStates(ws) == sessions[currentSessionId[ws]].pieceStates

\* the distinct groupIds of a PieceState set
GroupCount(ps) == Cardinality(uniqueGroups(ps))

\* a handler of the server has just sent this message to some socket
JustSent(msg) == \E w \in Sockets : \E i \in 1..Len(toClient[w]) : toClient[w][i] = msg

GroupMerged(s, t, o) ==
    [type |-> "GROUP_MERGED", sourceGroupId |-> s, targetGroupId |-> t, alignOffset |-> o]

\* this step is the server applying msg, sent by a connection that is in a session
Applies(ws, msg) == currentSessionId[ws] # 0 /\ SrvMessage(ws, msg)

\* the MERGE_GROUP messages of ws this step can be the handling of: the server
\* echoes every merge to its sender, so they are read off the GROUP_MERGED
\* the step sends to ws
StepMerges(ws) ==
    IF Len(toClient'[ws]) = 1 /\ toClient'[ws][1].type = "GROUP_MERGED"
    THEN {[type |-> "MERGE_GROUP",
           sourceGroupId |-> toClient'[ws][1].sourceGroupId,
           targetGroupId |-> toClient'[ws][1].targetGroupId,
           alignOffset |-> toClient'[ws][1].alignOffset]}
    ELSE {}

\* every message is delivered and processed and no client is dragging
Quiescent ==
    \A c \in Clients :
        /\ toServer[c] = << >>
        /\ toClient[c] = << >>
        /\ draggedPieceId[c] = Null

\* C1: once every message is delivered and processed and no drag is in
\* progress, every connected client's mirror has, for every piece the server
\* has a PieceState for, the server's groupId and position.
Convergence ==
    Quiescent =>
        \A c \in Clients :
            currentSessionId[c] # 0 =>
                \A p \in DOMAIN ServerStates(c) :
                    /\ p \in DOMAIN pieceStates[c]
                    /\ pieceStates[c][p].groupId = ServerStates(c)[p].groupId
                    /\ pieceStates[c][p].position = ServerStates(c)[p].position

\* C2: in every session, the groupId of every PieceState names a piece that,
\* when it has a PieceState, is itself a member of the group it names.
RepresentativeInGroup ==
    \A i \in 1..Len(sessions) :
        LET ps == sessions[i].pieceStates
        IN \A p \in DOMAIN ps :
            ps[p].groupId \in DOMAIN ps => ps[ps[p].groupId].groupId = ps[p].groupId

MergeLowersGroupCountByOne ==
    [][\A ws \in Sockets : \A msg \in StepMerges(ws) :
         (msg.sourceGroupId # msg.targetGroupId /\ Applies(ws, msg))
            => GroupCount(ServerStates(ws)') = GroupCount(ServerStates(ws)) - 1]_vars

\* C4, amended: a MERGE_GROUP with source # target lowers the number of
\* distinct groupIds by exactly one when both the source and the target
\* group have a member PieceState, and leaves it unchanged otherwise.
MergeLowersGroupCountWhenBothPresent ==
    [][\A ws \in Sockets : \A msg \in StepMerges(ws) :
         (msg.sourceGroupId # msg.targetGroupId /\ Applies(ws, msg))
            => LET groups == uniqueGroups(ServerStates(ws))
               IN GroupCount(ServerStates(ws)') =
                    IF {msg.sourceGroupId, msg.targetGroupId} \subseteq groups
                    THEN Cardinality(groups) - 1
                    ELSE Cardinality(groups)]_vars

\* a merge of two different groups has been applied and its target group
\* now holds the target piece and a piece that came from elsewhere
MergedTwoGroups ==
    \E s, t \in SrvPieces, o \in SrvOffsets :
        /\ s # t
        /\ JustSent(GroupMerged(s, t, o))
        /\ \E i \in 1..Len(sessions) :
             LET ps == sessions[i].pieceStates
             IN /\ {s, t} \subseteq DOMAIN ps
                /\ ps[s].groupId = t
                /\ ps[t].groupId = t
                /\ s \notin uniqueGroups(ps)

\* C5: on a client mirror no step (local merge, GROUP_MERGED, PIECE_MOVED)
\* takes a piece out of a group it shares with another piece, and the number
\* of distinct groups never grows.
MirrorGroupsNeverSplit ==
    [][\A c \in Clients :
         LET ps == pieceStates[c]
         IN DOMAIN ps # {} =>
              /\ \A p, q \in DOMAIN ps :
                    ps[p].groupId = ps[q].groupId
                       => pieceStates'[c][p].groupId = pieceStates'[c][q].groupId
              /\ GroupCount(pieceStates'[c]) <= GroupCount(ps)]_vars

\* C6: a merge with source = target is a no-op: MERGE_GROUP on the server and
\* GROUP_MERGED on a client leave every groupId and position unchanged.
SelfMergeIsNoOp ==
    [][/\ \A ws \in Sockets : \A msg \in StepMerges(ws) :
            (msg.sourceGroupId = msg.targetGroupId /\ Applies(ws, msg))
               => sessions' = sessions
       /\ \A c \in Clients :
            (/\ toClient[c] # << >>
             /\ Head(toClient[c]).type = "GROUP_MERGED"
             /\ Head(toClient[c]).sourceGroupId = Head(toClient[c]).targetGroupId
             /\ ClientReceive(c))
               => pieceStates' = pieceStates]_vars

\* C7: MERGE_GROUP(source, target, alignOffset) gives exactly the pieces of
\* the source group the target's groupId and adds alignOffset to each of
\* their coordinates; every other piece keeps its groupId and position.
MergeRelabelsAndTranslatesSource ==
    [][\A ws \in Sockets : \A msg \in StepMerges(ws) :
         Applies(ws, msg) =>
            LET before == ServerStates(ws)
                after == ServerStates(ws)'
            IN /\ DOMAIN after = DOMAIN before
               /\ \A p \in DOMAIN before :
                    IF before[p].groupId = msg.sourceGroupId
                    THEN /\ after[p].groupId = msg.targetGroupId
                         /\ \A k \in 1..3 :
                              after[p].position[k]
                                = before[p].position[k] + msg.alignOffset[k]
                    ELSE /\ after[p].groupId = before[p].groupId
                         /\ after[p].position = before[p].position]_vars

\* the example: four singleton pieces after merge(P2, P1, [1,0,0])
ExampleMergeApplied ==
    LET ps == sessions[1].pieceStates
    IN /\ JustSent(GroupMerged("P2", "P1", <<1, 0, 0>>))
       /\ ps["P2"].groupId = "P1" /\ ps["P2"].position = <<1, 10, 0>>
       /\ \A p \in {"P1", "P3", "P4"} :
            ps[p].groupId = p /\ ps[p].position = <<0, 10, 0>>
       /\ GroupCount(ps) = 3

\* C8, as claimed: reapplying merge(s, t, offset) leaves the group ids as the
\* first application left them and translates the reassigned pieces by
\* offset again.
ReapplyTranslatesAgain ==
    [][\A ws \in Sockets : \A msg \in StepMerges(ws) :
         Applies(ws, msg) =>
            LET before == ServerStates(ws)
                once == ServerStates(ws)'
                twice == ApplyMerge(once, msg.sourceGroupId, msg.targetGroupId,
                                    msg.alignOffset)
            IN /\ \A p \in DOMAIN once : twice[p].groupId = once[p].groupId
               /\ \A p \in DOMAIN before :
                    before[p].groupId = msg.sourceGroupId
                       => twice[p].position = Add(once[p].position, msg.alignOffset)]_vars

\* C8, amended: reapplying merge(s, t, offset) leaves the group ids as the
\* first application left them; with s # t it also leaves every position (no
\* piece is in s any more), and only with s = t does it translate the pieces
\* of the group by offset again.
ReapplyKeepsGroupsAndPositions ==
    [][\A ws \in Sockets : \A msg \in StepMerges(ws) :
         Applies(ws, msg) =>
            LET before == ServerStates(ws)
                once == ServerStates(ws)'
                twice == ApplyMerge(once, msg.sourceGroupId, msg.targetGroupId,
                                    msg.alignOffset)
            IN /\ \A p \in DOMAIN once : twice[p].groupId = once[p].groupId
               /\ \A p \in DOMAIN before :
                    twice[p].position =
                        IF msg.sourceGroupId = msg.targetGroupId
                           /\ before[p].groupId = msg.sourceGroupId
                        THEN Add(once[p].position, msg.alignOffset)
                        ELSE once[p].position]_vars

\* merge(s, t, offset) with s # t and a non-zero offset has reassigned a
\* piece, and applying it again would change nothing
ReappliedMergeChangesNothing ==
    \E s, t \in GrpPieces, o \in GrpOffsets :
        LET ps == sessions[1].pieceStates
        IN /\ s # t /\ o # <<0, 0, 0>>
           /\ JustSent(GroupMerged(s, t, o))
           /\ ps[s].groupId = t
           /\ ps[s].position = Add(<<0, 10, 0>>, o)
           /\ ApplyMerge(ps, s, t, o) = ps

\* C9: a mirror whose pieces all share one group has every piece solved and
\* on the floor (vertical coordinate 0).
OneGroupIsSolved ==
    \A c \in Clients :
        LET ps == pieceStates[c]
        IN (DOMAIN ps # {} /\ GroupCount(ps) = 1)
              => \A p \in DOMAIN ps : ps[p].isSolved /\ ps[p].position[2] = 0

\* C10: a mirror that is complete, as GameView computes isComplete, is
\* complete after every further step.
CompleteStaysComplete ==
    [][\A c \in Clients : isComplete(c) => isComplete(c)']_vars

----------------------------------------------------------------------------
(* Broadcast and echo suppression *)

PieceMoved(p, pos, g) ==
    [type |-> "PIECE_MOVED", pieceId |-> p, position |-> pos, groupId |-> g]

\* the MOVE_PIECE messages of ws this step can be the handling of: the piece
\* they name has the position they carry in the session of ws afterwards
StepMoves(ws) ==
    {msg \in MoveMessages(SrvPieces, SrvPositions) :
        /\ currentSessionId[ws] # 0
        /\ msg.pieceId \in DOMAIN sessions'[currentSessionId[ws]].pieceStates
        /\ sessions'[currentSessionId[ws]].pieceStates[msg.pieceId].position
              = msg.position}

\* this step sends delta, and nothing else, to every open connection of the
\* session of ws other than ws, and nothing to any other connection
SentToOthersOnly(ws, delta) ==
    \A w \in Sockets :
        toClient'[w] =
            IF /\ w # ws
               /\ w \in sessions[currentSessionId[ws]].players
               /\ wsState[w] = "open"
            THEN <<delta>>
            ELSE << >>

\* C11: the delta of every MOVE_PIECE and MERGE_GROUP the server applies is
\* sent to every open connection of the session except the originator, which
\* is not sent its own delta.
DeltaToAllButOriginator ==
    [][\A ws \in Sockets :
         /\ \A msg \in StepMoves(ws) :
               Applies(ws, msg) =>
                  SentToOthersOnly(ws,
                     PieceMoved(msg.pieceId, msg.position,
                                ServerStates(ws)'[msg.pieceId].groupId))
         /\ \A msg \in StepMerges(ws) :
               Applies(ws, msg) =>
                  SentToOthersOnly(ws,
                     GroupMerged(msg.sourceGroupId, msg.targetGroupId,
                                 msg.alignOffset))]_vars

\* C12: a PIECE_MOVED for a piece of the group a client is dragging changes
\* no position and no groupId of the client's mirror.
DraggedGroupIgnoresMoves ==
    [][\A c \in Clients :
         (/\ draggedPieceId[c] # Null
          /\ toClient[c] # << >>
          /\ Head(toClient[c]).type = "PIECE_MOVED"
          /\ Head(toClient[c]).pieceId \in DOMAIN pieceStates[c]
          /\ pieceStates[c][Head(toClient[c]).pieceId].groupId
                = pieceStates[c][draggedPieceId[c]].groupId
          /\ ClientReceive(c))
            => pieceStates'[c] = pieceStates[c]]_vars

----------------------------------------------------------------------------
(* The lobby: the server alone with several (map, difficulty) pairs *)

LobbyPairs ==
    {<<"mercury_beethoven", "medium">>, <<"venus_metis", "medium">>,
     <<"mercury_beethoven", "hard">>}
LobbyPieces == {"P1"}
LobbyPositions == {<<0, 10, 0>>}

LobbyJoins ==
    {[type |-> "JOIN_SESSION", mapId |-> pr[1], difficulty |-> pr[2]] : pr \in LobbyPairs}

LobbyMessages ==
    LobbyJoins \cup MoveMessages(LobbyPieces, LobbyPositions) \cup LeaveMessages

LobbyNext ==
    \/ \E ws \in Sockets : SrvConnect(ws)
    \/ \E ws \in Sockets, msg \in LobbyMessages : SrvMessage(ws, msg)
    \/ \E ws \in Sockets : SrvClose(ws)

LobbySpec == ServerInit /\ [][LobbyNext]_vars

\* the sessions of ss for the (mapId, difficulty) pair of a JOIN_SESSION
SessionsFor(ss, msg) ==
    {i \in 1..Len(ss) : ss[i].mapId = msg.mapId /\ ss[i].difficulty = msg.difficulty}

\* C14: at most one session exists per (mapId, difficulty) pair: JOIN_SESSION
\* creates a session only when the pair has none, and otherwise adds the
\* connection to the existing one.
OneSessionPerPair ==
    [][/\ \A i, j \in 1..Len(sessions') :
            (sessions'[i].mapId = sessions'[j].mapId
               /\ sessions'[i].difficulty = sessions'[j].difficulty) => i = j
       /\ \A ws \in Sockets, msg \in LobbyJoins :
            SrvMessage(ws, msg) =>
               IF SessionsFor(sessions, msg) = {}
               THEN /\ Len(sessions') = Len(sessions) + 1
                    /\ SessionsFor(sessions', msg) = {Len(sessions')}
                    /\ sessions'[Len(sessions')].players = {ws}
                    /\ currentSessionId'[ws] = Len(sessions')
                    /\ \A i \in 1..Len(sessions) : sessions'[i] = sessions[i]
               ELSE /\ Len(sessions') = Len(sessions)
                    /\ \A i \in 1..Len(sessions) :
                          sessions'[i] =
                            IF i \in SessionsFor(sessions, msg)
                            THEN [sessions[i] EXCEPT !.players = @ \cup {ws}]
                            ELSE sessions[i]
                    /\ currentSessionId'[ws] \in SessionsFor(sessions, msg)]_vars

\* a connection has joined the session another connection created, after
\* the session had been left empty, and other pairs have sessions too
JoinedExistingSession ==
    /\ Len(sessions) = Cardinality(LobbyPairs)
    /\ \E i \in 1..Len(sessions) :
          /\ sessions[i].players = {2}
          /\ currentSessionId[2] = i
          /\ i < Len(sessions)
          /\ wsState[1] = "closed"
          /\ JustSent([type |-> "SESSION_JOINED",
                       session |-> SessionStatusOf(sessions[i], i),
                       config |-> sessions[i].config,
                       currentStates |-> sessions[i].pieceStates])
          /\ sessions[i].pieceStates = << >>

\* the SESSION_JOINED the server sends for session i of ss
SessionJoined(ss, i) ==
    [type |-> "SESSION_JOINED", session |-> SessionStatusOf(ss[i], i),
     config |-> ss[i].config, currentStates |-> ss[i].pieceStates]

\* C15: LEAVE_SESSION and close remove only the connection from the
\* connection set of its session; no session is evicted or loses its id,
\* config or pieceStates, also when left empty, and a later JOIN_SESSION for
\* the pair gets that session and its piece states.
LeaveKeepsSession ==
    [][/\ Len(sessions') >= Len(sessions)
       /\ \A i \in 1..Len(sessions) :
            /\ sessions'[i].mapId = sessions[i].mapId
            /\ sessions'[i].difficulty = sessions[i].difficulty
            /\ sessions'[i].config = sessions[i].config
       /\ \A ws \in Sockets :
            /\ (SrvMessage(ws, [type |-> "LEAVE_SESSION"]) \/ SrvClose(ws)) =>
                  /\ Len(sessions') = Len(sessions)
                  /\ \A i \in 1..Len(sessions) :
                        sessions'[i] =
                          IF i = currentSessionId[ws]
                          THEN [sessions[i] EXCEPT !.players = @ \ {ws}]
                          ELSE sessions[i]
            /\ \A msg \in LobbyJoins :
                  SrvMessage(ws, msg) =>
                     \A i \in SessionsFor(sessions, msg) :
                        /\ currentSessionId'[ws] = i
                        /\ sessions'[i].pieceStates = sessions[i].pieceStates
                        /\ toClient'[ws][1] = SessionJoined(sessions', i)
                        /\ toClient'[ws][1].currentStates = sessions[i].pieceStates]_vars

\* a session that was left empty with a piece state has been joined again
\* and the joiner was sent that piece state
RejoinedEmptiedSession ==
    \E i \in 1..Len(sessions) :
        /\ wsState = <<"closed", "open">>
        /\ currentSessionId[2] = i
        /\ sessions[i].players = {2}
        /\ sessions[i].pieceStates # << >>
        /\ toClient[2] # << >>
        /\ toClient[2][1] = SessionJoined(sessions, i)

\* this step is the server handling a LEAVE_SESSION or the close of ws
LeavesOrCloses(ws) == SrvMessage(ws, [type |-> "LEAVE_SESSION"]) \/ SrvClose(ws)

\* a PIECE_MOVED or GROUP_MERGED is among the messages msgs
HasDelta(msgs) ==
    \E k \in 1..Len(msgs) : msgs[k].type \in {"PIECE_MOVED", "GROUP_MERGED"}

\* C16: once the server has handled a LEAVE_SESSION or close of a connection,
\* the connection is in no session's connection set and is sent no
\* PIECE_MOVED or GROUP_MERGED until it joins again; the piece states its
\* intents produced stay.
LeftConnectionIsInNoSession ==
    [][\A ws \in Sockets :
         /\ LeavesOrCloses(ws) =>
               /\ \A i \in 1..Len(sessions') : ws \notin sessions'[i].players
               /\ \A i \in 1..Len(sessions) :
                     sessions'[i].pieceStates = sessions[i].pieceStates
         /\ currentSessionId[ws] = 0 => ~HasDelta(toClient'[ws])]_vars

\* C17: after every join, leave and disconnect every open connection is
\* sent a SESSION_LIST of all sessions in which activePlayers of a session
\* is the number of connected clients whose current session it is.
SessionListCountsMembers ==
    [][\A ws \in Sockets :
         (\/ \E msg \in LobbyJoins : SrvMessage(ws, msg)
          \/ (currentSessionId[ws] # 0 /\ LeavesOrCloses(ws)))
            => \A w \in Sockets :
                  wsState'[w] = "open" =>
                     \E k \in 1..Len(toClient'[w]) :
                        LET list == toClient'[w][k]
                        IN /\ list.type = "SESSION_LIST"
                           /\ Len(list.sessions) = Len(sessions')
                           /\ \A i \in 1..Len(sessions') :
                                 /\ list.sessions[i].sessionId = i
                                 /\ list.sessions[i].activePlayers =
                                       Cardinality({v \in Sockets :
                                                      /\ wsState'[v] = "open"
                                                      /\ currentSessionId'[v] = i})]_vars

----------------------------------------------------------------------------
(* Lenient intents *)

\* C18: MOVE_PIECE(p, pos) from a joined connection makes p's position pos
\* whatever it was, keeps p's groupId and isSolved when p had a PieceState,
\* and changes no other piece and nothing else of any session.
\* (A move sends nothing to its sender, and one that leaves sessions as it
\* was has nothing to show.)
MoveOverwritesPositionOnly ==
    [][\A ws \in Sockets :
         (toClient'[ws] = << >> /\ sessions' # sessions) =>
            \A msg \in StepMoves(ws) :
               Applies(ws, msg) =>
                  LET before == ServerStates(ws)
                      after == ServerStates(ws)'
                      p == msg.pieceId
                  IN /\ DOMAIN after = DOMAIN before \cup {p}
                     /\ after[p].position = msg.position
                     /\ p \in DOMAIN before =>
                           after[p] = [before[p] EXCEPT !.position = msg.position]
                     /\ \A q \in DOMAIN before \ {p} : after[q] = before[q]
                     /\ sessions' = [sessions EXCEPT
                                       ![currentSessionId[ws]].pieceStates = after]]_vars

\* a piece that a merge had put into another piece's group and translated
\* has been moved again, and its position is the one of the move
MovedMergedPiece ==
    /\ JustSent(PieceMoved("P1", <<0, 10, 0>>, "P2"))
    /\ Len(sessions) = 1
    /\ {"P1", "P2"} \subseteq DOMAIN sessions[1].pieceStates
    /\ sessions[1].pieceStates["P1"] =
          [id |-> "P1", position |-> <<0, 10, 0>>, groupId |-> "P2", isSolved |-> FALSE]
    /\ sessions[1].pieceStates["P2"].position = <<1, 9, 2>>

\* C19, as claimed: MOVE_PIECE for a piece without PieceState creates one
\* with the position, the piece's id as groupId and isSolved false;
\* MERGE_GROUP naming a group without member changes no PieceState.
AbsentIdsChangeNothing ==
    [][\A ws \in Sockets :
         /\ \A msg \in MoveMessages(SrvPieces, SrvPositions) :
               (Applies(ws, msg) /\ msg.pieceId \notin DOMAIN ServerStates(ws))
                  => ServerStates(ws)'[msg.pieceId]
                        = NewPieceState(msg.pieceId, msg.position)
         /\ \A msg \in StepMerges(ws) :
               (/\ Applies(ws, msg)
                /\ {msg.sourceGroupId, msg.targetGroupId}
                       \ uniqueGroups(ServerStates(ws)) # {})
                  => ServerStates(ws)' = ServerStates(ws)]_vars

\* C19, amended: MOVE_PIECE for a piece without PieceState creates the
\* default one; MERGE_GROUP whose source group has no member changes no
\* PieceState; MERGE_GROUP whose target group has no member but whose source
\* group has some relabels and translates the source pieces all the same.
\* In each case the handler completes and broadcasts GROUP_MERGED.
AbsentIdsAreTolerated ==
    [][\A ws \in Sockets :
         /\ (toClient'[ws] = << >> /\ sessions' # sessions) =>
               \A msg \in StepMoves(ws) :
                  (msg.pieceId \notin DOMAIN ServerStates(ws) /\ Applies(ws, msg))
                     => ServerStates(ws)'[msg.pieceId]
                           = NewPieceState(msg.pieceId, msg.position)
         /\ \A msg \in StepMerges(ws) :
               Applies(ws, msg) =>
                  LET before == ServerStates(ws)
                      after == ServerStates(ws)'
                  IN /\ msg.sourceGroupId \notin uniqueGroups(before)
                          => after = before
                     /\ (/\ msg.sourceGroupId \in uniqueGroups(before)
                         /\ msg.targetGroupId \notin uniqueGroups(before))
                          => /\ DOMAIN after = DOMAIN before
                             /\ \A p \in DOMAIN before :
                                   after[p] =
                                     IF before[p].groupId = msg.sourceGroupId
                                     THEN [before[p] EXCEPT
                                             !.groupId = msg.targetGroupId,
                                             !.position = Add(@, msg.alignOffset)]
                                     ELSE before[p]]_vars

\* a MERGE_GROUP naming two groups without member has been handled in a
\* session whose only PieceState is one a MOVE_PIECE created
MergedAbsentGroups ==
    /\ JustSent(GroupMerged("P1", "P2", <<1, -1, 2>>))
    /\ Len(sessions) = 1
    /\ sessions[1].pieceStates = [p \in {"P3"} |-> NewPieceState("P3", <<0, 10, 0>>)]

----------------------------------------------------------------------------
(* Malformed messages: the server alone, sent text that does not parse and *)
(* MERGE_GROUP messages without alignOffset                                *)

\* MERGE_GROUP without alignOffset.  The forEach gives the first piece of
\* the source group the target groupId and then throws on alignOffset[0];
\* the catch of the handler swallows the error, so the other pieces stay and
\* nothing is broadcast.  With no piece in the source group nothing throws
\* and GROUP_MERGED is broadcast without alignOffset.  The model does not
\* keep the insertion order of pieceStates: the first piece is any piece of
\* the source group.
MergeGroupWithoutOffset(ws, msg, out) ==
    LET id == currentSessionId[ws]
        ps == sessions[id].pieceStates
        source == {p \in DOMAIN ps : ps[p].groupId = msg.sourceGroupId}
        merged == [type |-> "GROUP_MERGED", sourceGroupId |-> msg.sourceGroupId,
                   targetGroupId |-> msg.targetGroupId]
    IN /\ IF source = {}
          THEN /\ toClient' = [w \in Sockets |->
                                 IF w \in sessions[id].players /\ wsState[w] = "open"
                                 THEN Append(out[w], merged) ELSE out[w]]
               /\ UNCHANGED sessions
          ELSE /\ \E p \in source :
                     sessions' = [sessions EXCEPT
                                    ![id].pieceStates[p].groupId = msg.targetGroupId]
               /\ toClient' = out
       /\ UNCHANGED currentSessionId

\* ws.on('message') applied to the text of a message: raw is what JSON.parse
\* gives, or a record without type when the text does not parse
OnRawMessage(ws, raw, out) ==
    IF "type" \notin DOMAIN raw
    THEN /\ toClient' = out
         /\ UNCHANGED <<sessions, currentSessionId>>
    ELSE IF /\ raw.type = "MERGE_GROUP"
            /\ "alignOffset" \notin DOMAIN raw
            /\ currentSessionId[ws] # 0
         THEN MergeGroupWithoutOffset(ws, raw, out)
         ELSE OnMessage(ws, raw, out)

RawPieces == {"P1", "P2"}

\* text that JSON.parse rejects
Unparsable == [text |-> "{"]

MalformedMessages ==
    {Unparsable}
        \cup {[type |-> "MERGE_GROUP", sourceGroupId |-> s, targetGroupId |-> t] :
                 s \in RawPieces, t \in RawPieces}

RawMessages ==
    JoinMessages \cup MoveMessages(RawPieces, SrvPositions)
        \cup MergeMessages(RawPieces, SrvOffsets) \cup LeaveMessages
        \cup MalformedMessages

SrvRaw(ws, raw) ==
    /\ wsState[ws] = "open"
    /\ OnRawMessage(ws, raw, EmptyOut)
    /\ InBounds(sessions')
    /\ UNCHANGED <<wsState, toServer, cliVars>>

RawNext ==
    \/ \E ws \in Sockets : SrvConnect(ws)
    \/ \E ws \in Sockets, raw \in RawMessages : SrvRaw(ws, raw)
    \/ \E ws \in Sockets : SrvClose(ws)

RawSpec == ServerInit /\ [][RawNext]_vars

\* C20: a malformed message (text that does not parse, MERGE_GROUP without
\* alignOffset) leaves every session's pieceStates and connection set as
\* they were and sends no delta.
MalformedIsDiscarded ==
    [][\A ws \in Sockets, raw \in MalformedMessages :
         SrvRaw(ws, raw) =>
            /\ sessions' = sessions
            /\ \A w \in Sockets : ~HasDelta(toClient'[w])]_vars

----------------------------------------------------------------------------
(* The visit: clients join from the lobby, build their mirror, play, leave *)

\* joins, drags and moves the clients of this specification make, all together
MaxJoins == 2
MaxVisitDrags == 1
MaxVisitMoves == 1

joinSession(c, mapId, difficulty) ==
    /\ isConnecting' = [isConnecting EXCEPT ![c] = TRUE]
    /\ Send(c, << [type |-> "JOIN_SESSION", mapId |-> mapId,
                   difficulty |-> difficulty] >>)
    /\ UNCHANGED <<pieceStates, draggedPieceId, snapCandidateGroupId,
                   currentView, pendingServerStates, initMap>>

leaveSession(c) ==
    /\ Send(c, << [type |-> "LEAVE_SESSION"] >>)
    /\ currentView' = [currentView EXCEPT ![c] = "lobby"]
    /\ pieceStates' = [pieceStates EXCEPT ![c] = << >>]
    /\ pendingServerStates' = [pendingServerStates EXCEPT ![c] = << >>]
    /\ UNCHANGED <<draggedPieceId, snapCandidateGroupId, isConnecting, initMap>>

\* Lobby: the join button, disabled while isConnecting
JoinClick(c) ==
    /\ currentView[c] = "lobby"
    /\ ~isConnecting[c]
    /\ nJoins < MaxJoins
    /\ joinSession(c, TheMap, TheDifficulty)
    /\ nJoins' = nJoins + 1
    /\ UNCHANGED <<srvVars, nDrags, nMoves, nCloses,
                   svcVars, mockVars>>

\* GameView: the effect starts initMap once per mount, when the store has
\* the session and no regions yet; initMap keeps the pendingServerStates
\* of that render
InitStart(c) ==
    /\ currentView[c] = "game"
    /\ pieceStates[c] = << >>
    /\ initMap[c] = << >>
    /\ initMap' = [initMap EXCEPT ![c] = <<pendingServerStates[c]>>]
    /\ UNCHANGED <<srvVars, toServer, pieceStates, draggedPieceId,
                   snapCandidateGroupId, nDrags, nMoves, currentView,
                   isConnecting, pendingServerStates, nJoins, nCloses,
                   svcVars, mockVars>>

\* GameView: the segmentation has finished and initMap calls setPuzzleRegions
InitEnd(c) ==
    /\ initMap[c] # << >>
    /\ pieceStates' = [pieceStates EXCEPT ![c] = InitialStates(Head(initMap[c]))]
    /\ initMap' = [initMap EXCEPT ![c] = Tail(@)]
    /\ UNCHANGED <<srvVars, toServer, draggedPieceId, snapCandidateGroupId,
                   nDrags, nMoves, currentView, isConnecting, pendingServerStates,
                   nJoins, nCloses,
                   svcVars, mockVars>>

\* GameView: the back button; the loading overlay covers it until the
\* mirror is built, and a pointer that holds a piece cannot click it
LeaveClick(c) ==
    /\ currentView[c] = "game"
    /\ pieceStates[c] # << >>
    /\ draggedPieceId[c] = Null
    /\ leaveSession(c)
    /\ UNCHANGED <<srvVars, nDrags, nMoves, nJoins, nCloses,
                   svcVars, mockVars>>

\* the clients whose user drags pieces; the other client joins, watches
\* and leaves
Players == {1}

VisitDown(c, p) == nDrags < MaxVisitDrags /\ PointerDown(c, p)
VisitMove(c, delta) == nMoves < MaxVisitMoves /\ PointerMove(c, delta)

VisitInit ==
    /\ sessions = << >>
    /\ currentSessionId = [w \in Sockets |-> 0]
    /\ wsState = [w \in Sockets |-> "open"]
    /\ toServer = [w \in Sockets |-> << >>]
    /\ toClient = [w \in Sockets |-> << >>]
    /\ pieceStates = [c \in Clients |-> << >>]
    /\ draggedPieceId = [c \in Clients |-> Null]
    /\ snapCandidateGroupId = [c \in Clients |-> Null]
    /\ nDrags = 0
    /\ nMoves = 0
    /\ currentView = [c \in Clients |-> "lobby"]
    /\ isConnecting = [c \in Clients |-> FALSE]
    /\ pendingServerStates = [c \in Clients |-> << >>]
    /\ initMap = [c \in Clients |-> << >>]
    /\ nJoins = 0
    /\ nCloses = 0
    /\ ServiceConnected
    /\ MockIdle

VisitNext ==
    \/ \E c \in Clients : JoinClick(c)
    \/ \E c \in Clients : InitStart(c)
    \/ \E c \in Clients : InitEnd(c)
    \/ \E c \in Clients : LeaveClick(c)
    \/ \E c \in Players, p \in Pieces : VisitDown(c, p)
    \/ \E c \in Players, delta \in Deltas : VisitMove(c, delta)
    \/ \E c \in Players : PointerUp(c)
    \/ \E ws \in Sockets : ServerReceive(ws)
    \/ \E c \in Clients : ClientReceive(c)

VisitSpec == VisitInit /\ [][VisitNext]_vars

\* C13: a client that joins a session with piece states builds its mirror
\* from them: SESSION_JOINED carries the server's pieceStates, the store
\* keeps them for GameView, and setPuzzleRegions gives every piece the
\* server knows the server's entry rather than a scattered position.
RejoinGetsServerStates ==
    [][\A c \in Clients :
         /\ (/\ toServer[c] # << >>
             /\ Head(toServer[c]).type = "JOIN_SESSION"
             /\ ServerReceive(c))
               => /\ Len(toClient'[c]) = Len(toClient[c]) + 2
                  /\ toClient'[c][Len(toClient[c]) + 1]
                        = SessionJoined(sessions', currentSessionId'[c])
         /\ (/\ toClient[c] # << >>
             /\ Head(toClient[c]).type = "SESSION_JOINED"
             /\ ClientReceive(c))
               => pendingServerStates'[c] = Head(toClient[c]).currentStates
         /\ InitStart(c) => initMap'[c] = <<pendingServerStates[c]>>
         /\ InitEnd(c) =>
               \A p \in DOMAIN Head(initMap[c]) :
                  /\ p \in DOMAIN pieceStates'[c]
                  /\ pieceStates'[c][p] = Head(initMap[c])[p]]_vars

\* a client has built its mirror from piece states of the server that
\* another client's move and merge produced
MirrorBuiltFromServerStates ==
    \E c \in Clients :
        /\ currentView[c] = "game"
        /\ initMap[c] = << >>
        /\ pieceStates[c] # << >>
        /\ pendingServerStates[c] # << >>
        /\ \E p \in DOMAIN pendingServerStates[c] :
              /\ pendingServerStates[c][p].groupId # p
              /\ pendingServerStates[c][p].position # scatter[p]
        /\ \A p \in DOMAIN pendingServerStates[c] :
              pieceStates[c][p] = pendingServerStates[c][p]

----------------------------------------------------------------------------
(* The drag gesture *)

\* presses the pointers of the clients of TouchSpec make, all together
MaxTouches == 2

\* PuzzlePiece.handlePointerDown on piece p, by any pointer of a touch
\* screen: a second finger can press a piece while the first holds another
TouchDown(c, p) ==
    /\ nDrags < MaxTouches
    /\ p \in DOMAIN pieceStates[c]
    /\ ~pieceStates[c][p].isSolved
    /\ dragStart(c, p)
    /\ nDrags' = nDrags + 1
    /\ UNCHANGED <<srvVars, nMoves, viewVars>>

TouchNext ==
    \/ \E c \in Clients, p \in Pieces : TouchDown(c, p)
    \/ \E c \in Clients, delta \in Deltas : VisitMove(c, delta)
    \/ \E c \in Clients : PointerUp(c)
    \/ \E ws \in Sockets : ServerReceive(ws)
    \/ \E c \in Clients : ClientReceive(c)

TouchSpec == Init /\ [][TouchNext]_vars

\* C21: a press starts a drag only when the client's session is not complete
\* and no other drag is in progress; otherwise draggedPieceId is unchanged.
DragStartsOnlyWhenIdle ==
    [][\A c \in Clients, p \in Pieces :
          (TouchDown(c, p) /\ (isComplete(c) \/ draggedPieceId[c] # Null))
             => draggedPieceId'[c] = draggedPieceId[c]]_vars

\* C22: in every state in which a drag is in progress, releasing the pointer
\* on the dragged piece ends the drag: handlePointerUp reaches dragEnd, which
\* sets draggedPieceId and snapCandidateGroupId to null.
ReleaseEndsDrag ==
    \A c \in Clients :
        draggedPieceId[c] # Null => ~pieceStates[c][draggedPieceId[c]].isSolved

\* drags and moves the player of GestureSpec makes
MaxGestureDrags == 2
MaxGestureMoves == 2

GestureDown(c, p) == nDrags < MaxGestureDrags /\ PointerDown(c, p)
GestureMove(c, delta) == nMoves < MaxGestureMoves /\ PointerMove(c, delta)

\* one client plays, the other watches; both mirrors follow the server
GestureNext ==
    \/ \E c \in Players, p \in Pieces : GestureDown(c, p)
    \/ \E c \in Players, delta \in Deltas : GestureMove(c, delta)
    \/ \E c \in Players : PointerUp(c)
    \/ \E ws \in Sockets : ServerReceive(ws)
    \/ \E c \in Clients : ClientReceive(c)

GestureSpec == Init /\ [][GestureNext]_vars

\* the messages a step appends to the socket of client c
Emitted(c) == SubSeq(toServer'[c], Len(toServer[c]) + 1, Len(toServer'[c]))

\* the pieces of the mirror of c in the group of the piece c drags
DraggedGroup(c) ==
    {p \in DOMAIN pieceStates[c] :
        pieceStates[c][p].groupId = pieceStates[c][draggedPieceId[c]].groupId}

\* C23: dragMove(delta) during a drag adds delta to the position of every
\* piece of the dragged group, emits exactly one MOVE_PIECE per such piece
\* with its new position, and leaves the position of every other piece and
\* the groupId of every piece unchanged; it runs only during a drag.
DragMoveTranslatesGroup ==
    [][\A c \in Clients, delta \in Deltas :
          PointerMove(c, delta) =>
             /\ draggedPieceId[c] # Null
             /\ Len(toServer'[c]) = Len(toServer[c]) + Cardinality(DraggedGroup(c))
             /\ \A p \in DOMAIN pieceStates[c] :
                   /\ pieceStates'[c][p].groupId = pieceStates[c][p].groupId
                   /\ IF p \in DraggedGroup(c)
                      THEN /\ pieceStates'[c][p].position
                                = Add(pieceStates[c][p].position, delta)
                           /\ \E i \in 1..Len(Emitted(c)) :
                                 Emitted(c)[i] =
                                    [type |-> "MOVE_PIECE", pieceId |-> p,
                                     position |-> pieceStates'[c][p].position]
                      ELSE pieceStates'[c][p].position = pieceStates[c][p].position
             /\ \A d \in Clients \ {c} :
                   /\ pieceStates'[d] = pieceStates[d]
                   /\ toServer'[d] = toServer[d]]_vars

\* a client has just moved a group of two pieces: its socket ends with the
\* MOVE_PIECE of both, each with the position the mirror now has
MovedTwoPieceGroup ==
    \E c \in Clients :
        /\ draggedPieceId[c] # Null
        /\ Cardinality(DraggedGroup(c)) = 2
        /\ Len(toServer[c]) >= 2
        /\ \A p \in DraggedGroup(c) :
              \E i \in {Len(toServer[c]) - 1, Len(toServer[c])} :
                 toServer[c][i] = [type |-> "MOVE_PIECE", pieceId |-> p,
                                   position |-> pieceStates[c][p].position]

\* the place of piece p in Object.values of a mirror
OrderOf(p) == CHOOSE i \in 1..Len(puzzleRegions) : puzzleRegions[i] = p

\* the pairs (mover, target) of a mirror whose snap error is below
\* SNAP_DISTANCE, the movers being the pieces of group g
SnapPairs(states, g) ==
    {pr \in (DOMAIN states) \X (DOMAIN states) :
        /\ states[pr[1]].groupId = g
        /\ states[pr[2]].groupId # g
        /\ SnapError2(states, pr[1], pr[2]) < SNAP_DISTANCE * SNAP_DISTANCE}

\* candidate is the group of the target of the first pair of SnapPairs,
\* movers first, and null when there is no pair
IsFirstSnap(states, g, candidate) ==
    IF SnapPairs(states, g) = {}
    THEN candidate = Null
    ELSE \E pr \in SnapPairs(states, g) :
            /\ candidate = states[pr[2]].groupId
            /\ \A q \in SnapPairs(states, g) :
                  \/ OrderOf(pr[1]) < OrderOf(q[1])
                  \/ (pr[1] = q[1] /\ OrderOf(pr[2]) <= OrderOf(q[2]))

\* a mirror of P1 at the origin and P2 placed at the offset off from it;
\* the ideal offset of P2 from P1 is (2, 0)
PlacedPair(off) ==
    [p \in {"P1", "P2"} |->
        NewPieceState(p, IF p = "P1" THEN <<0, 0, 0>> ELSE off)]

\* C24: after every dragMove, snapCandidateGroupId is the group of the
\* target piece of the first pair (mover pieces first, then pieces of other
\* groups) whose snap error is below 4.0, and null when no pair qualifies;
\* with ideal offset (2, 0), a placed offset of (2, 0) or (3, 0) is a
\* candidate and a placed offset of (10, 0) is not.
SnapCandidateIsFirstPair ==
    [][\A c \in Clients, delta \in Deltas :
          PointerMove(c, delta) =>
             /\ IsFirstSnap(pieceStates'[c],
                            pieceStates'[c][draggedPieceId[c]].groupId,
                            snapCandidateGroupId'[c])
             /\ SnapCandidate(PlacedPair(<<2, 0, 0>>), "P2") = "P1"
             /\ SnapCandidate(PlacedPair(<<3, 0, 0>>), "P2") = "P1"
             /\ SnapCandidate(PlacedPair(<<10, 0, 0>>), "P2") = Null]_vars

\* a drag has a candidate while pieces of two different other groups are
\* within the snap distance of the dragged group
TwoGroupsWithinSnapDistance ==
    \E c \in Clients :
        /\ draggedPieceId[c] # Null
        /\ snapCandidateGroupId[c] # Null
        /\ \E pr, q \in SnapPairs(pieceStates[c],
                                  pieceStates[c][draggedPieceId[c]].groupId) :
              pieceStates[c][pr[2]].groupId # pieceStates[c][q[2]].groupId
        /\ IsFirstSnap(pieceStates[c], pieceStates[c][draggedPieceId[c]].groupId,
                       snapCandidateGroupId[c])

\* piece p of the mirror of c goes from its position by offset, and to the
\* floor when the merge completes the puzzle
MovedBy(c, p, offset) ==
    /\ pieceStates'[c][p].position[1] = pieceStates[c][p].position[1] + offset[1]
    /\ pieceStates'[c][p].position[3] = pieceStates[c][p].position[3] + offset[3]
    /\ pieceStates'[c][p].position[2] =
          IF pieceStates'[c][p].isSolved THEN 0
          ELSE pieceStates[c][p].position[2] + offset[2]

\* C25: dragEnd with a snap candidate relabels the dragged group to the
\* candidate group in the mirror, translated by one offset, and emits
\* exactly one MERGE_GROUP with that source group, target group and offset;
\* dragEnd without a candidate emits nothing and leaves every piece as it was.
DragEndMergesAndEmitsOnce ==
    [][\A c \in Clients :
          PointerUp(c) =>
             IF snapCandidateGroupId[c] # Null
             THEN /\ Len(Emitted(c)) = 1
                  /\ Emitted(c)[1].type = "MERGE_GROUP"
                  /\ Emitted(c)[1].sourceGroupId
                        = pieceStates[c][draggedPieceId[c]].groupId
                  /\ Emitted(c)[1].targetGroupId = snapCandidateGroupId[c]
                  /\ \A p \in DOMAIN pieceStates[c] :
                        IF p \in DraggedGroup(c)
                        THEN /\ pieceStates'[c][p].groupId = Emitted(c)[1].targetGroupId
                             /\ MovedBy(c, p, Emitted(c)[1].alignOffset)
                        ELSE /\ pieceStates'[c][p].groupId = pieceStates[c][p].groupId
                             /\ MovedBy(c, p, <<0, 0, 0>>)
             ELSE /\ Emitted(c) = << >>
                  /\ pieceStates'[c] = pieceStates[c]]_vars

\* a client has just merged a group of two pieces into a third group: its
\* socket ends with the MERGE_GROUP and the mirror has the pieces relabeled
MergedTwoPieceGroupLocally ==
    \E c \in Clients :
        /\ draggedPieceId[c] = Null
        /\ toServer[c] # << >>
        /\ LET msg == toServer[c][Len(toServer[c])]
           IN /\ msg.type = "MERGE_GROUP"
              /\ msg.sourceGroupId # msg.targetGroupId
              /\ msg.alignOffset # <<0, 0, 0>>
              /\ Cardinality({p \in DOMAIN pieceStates[c] :
                                pieceStates[c][p].groupId = msg.targetGroupId}) = 3
              /\ msg.sourceGroupId \in DOMAIN pieceStates[c]
              /\ pieceStates[c][msg.sourceGroupId].groupId = msg.targetGroupId

\* C26: after dragEnd merges the dragged group into a candidate group that
\* has a piece in the mirror, the first mover piece is placed at the target
\* group's implied position: its x and z offsets from the first target piece
\* equal their centroid differences and its vertical coordinate equals the
\* target's; every other mover piece is translated by the same offset.
MergeAlignsMoverWithTarget ==
    [][\A c \in Clients :
          (/\ PointerUp(c)
           /\ snapCandidateGroupId[c] # Null
           /\ GroupPieces(pieceStates[c], snapCandidateGroupId[c]) # << >>)
             => LET states == pieceStates[c]
                    mover == GroupPieces(states, states[draggedPieceId[c]].groupId)[1]
                    target == GroupPieces(states, snapCandidateGroupId[c])[1]
                    placed == pieceStates'[c][mover].position
                    ref == pieceStates'[c][target].position
                IN /\ placed[1] - ref[1] = center[mover].x - center[target].x
                   /\ placed[3] - ref[3] = center[mover].y - center[target].y
                   /\ placed[2] = ref[2]
                   /\ \A p \in DraggedGroup(c) :
                         MovedBy(c, p, <<placed[1] - states[mover].position[1],
                                         placed[2] - states[mover].position[2],
                                         placed[3] - states[mover].position[3]>>)]_vars

\* a client has just merged the piece it dragged into another group from a
\* different height: the piece is now at the height of the group
MergedFromAnotherHeight ==
    \E c \in Clients :
        /\ draggedPieceId[c] = Null
        /\ toServer[c] # << >>
        /\ LET msg == toServer[c][Len(toServer[c])]
           IN /\ msg.type = "MERGE_GROUP"
              /\ msg.sourceGroupId # msg.targetGroupId
              /\ msg.alignOffset[2] # 0
              /\ msg.sourceGroupId \in DOMAIN pieceStates[c]
              /\ msg.targetGroupId \in DOMAIN pieceStates[c]
              /\ pieceStates[c][msg.sourceGroupId].groupId = msg.targetGroupId
              /\ pieceStates[c][msg.sourceGroupId].position[2]
                    = pieceStates[c][msg.targetGroupId].position[2]
              /\ ~pieceStates[c][msg.sourceGroupId].isSolved

----------------------------------------------------------------------------
(* One merge, applied by the server and replayed by the clients *)

ReplayPositions == {<<0, 10, 0>>, <<4, 12, 0>>}
ReplayOffsets == {<<0, 0, 0>>, <<1, -2, 2>>}

\* the pieceStates a session can have: any pieces, any groups, unsolved
ReplayStates ==
    UNION {{[p \in D |-> [id |-> p, position |-> pos[p], groupId |-> g[p],
                          isSolved |-> FALSE]] :
               pos \in [D -> ReplayPositions], g \in [D -> Pieces]} :
           D \in SUBSET Pieces}

\* both clients have joined a session and built their mirrors from its
\* piece states, and client 1 sends one MERGE_GROUP
ReplayInit ==
    \E S \in ReplayStates, src \in Pieces, tgt \in Pieces, off \in ReplayOffsets :
        /\ sessions = << [mapId |-> TheMap, difficulty |-> TheDifficulty,
                          players |-> Clients, pieceStates |-> S,
                          config |-> 1, status |-> "active"] >>
        /\ currentSessionId = [w \in Sockets |-> 1]
        /\ wsState = [w \in Sockets |-> "open"]
        /\ toServer = [w \in Sockets |->
                         IF w = 1
                         THEN << [type |-> "MERGE_GROUP", sourceGroupId |-> src,
                                  targetGroupId |-> tgt, alignOffset |-> off] >>
                         ELSE << >>]
        /\ toClient = [w \in Sockets |-> << >>]
        /\ pieceStates = [c \in Clients |-> InitialStates(S)]
        /\ draggedPieceId = [c \in Clients |-> Null]
        /\ snapCandidateGroupId = [c \in Clients |-> Null]
        /\ nDrags = 0
        /\ nMoves = 0
        /\ currentView = [c \in Clients |-> "game"]
        /\ isConnecting = [c \in Clients |-> FALSE]
        /\ pendingServerStates = [c \in Clients |-> S]
        /\ initMap = [c \in Clients |-> << >>]
        /\ nJoins = 0
        /\ nCloses = 0
        /\ ServiceConnected
        /\ MockIdle

ReplayNext ==
    \/ \E ws \in Sockets : ServerReceive(ws)
    \/ \E c \in Clients : ClientReceive(c)

ReplaySpec == ReplayInit /\ [][ReplayNext]_vars

\* the server has applied the merge and client c has replayed it
Replayed(c) ==
    /\ \A w \in Sockets : toServer[w] = << >>
    /\ toClient[c] = << >>

\* C27: a mirror that agreed with the server before a MERGE_GROUP agrees
\* with it again, on the groupId and horizontal position of every piece the
\* server has, once the server has applied the merge and the client has
\* replayed GROUP_MERGED; the client's pieces are solved exactly when its own
\* mirror is left with one group.
ReplayAgreesWithServer ==
    \A c \in Clients :
        Replayed(c) =>
            /\ \A p \in DOMAIN ServerStates(c) :
                  /\ pieceStates[c][p].groupId = ServerStates(c)[p].groupId
                  /\ pieceStates[c][p].position[1] = ServerStates(c)[p].position[1]
                  /\ pieceStates[c][p].position[3] = ServerStates(c)[p].position[3]
            /\ \A p \in DOMAIN pieceStates[c] :
                  pieceStates[c][p].isSolved
                     <=> Cardinality(uniqueGroups(pieceStates[c])) = 1

\* a client has replayed a merge that moved two pieces into the group of the
\* third and completed its mirror, while the server holds them unsolved
ReplayedCompletingMerge ==
    \E c \in Clients :
        /\ Replayed(c)
        /\ DOMAIN ServerStates(c) = Pieces
        /\ \A p \in Pieces :
              /\ pieceStates[c][p].isSolved
              /\ pieceStates[c][p].groupId = "P3"
              /\ ~ServerStates(c)[p].isSolved
        /\ \E p, q \in Pieces :
              /\ p # q
              /\ pendingServerStates[c][p].groupId = "P1"
              /\ pendingServerStates[c][q].groupId = "P1"
              /\ pendingServerStates[c][p].position[1] # pieceStates[c][p].position[1]

----------------------------------------------------------------------------
(* The link: sockets close and SocketService connects again *)

\* sockets closed in a behaviour of LinkSpec, all together
MaxCloses == 1

\* the socket of client c closes: socket.onclose on the client, ws.on('close')
\* on the server; what was in flight on it is lost
LinkClose(c) ==
    /\ nCloses < MaxCloses
    /\ OnClose(c, [toClient EXCEPT ![c] = << >>])
    /\ toServer' = [toServer EXCEPT ![c] = << >>]
    /\ nCloses' = nCloses + 1
    /\ UNCHANGED <<pieceStates, draggedPieceId, snapCandidateGroupId, nDrags, nMoves,
                   currentView, isConnecting, pendingServerStates, initMap, nJoins,
                   svcVars, mockVars>>

\* SocketService.connect three seconds after onclose: a new WebSocket, which
\* the server greets with the session list; nothing is sent on it
LinkReopen(c) ==
    /\ wsState[c] = "closed"
    /\ wsState' = [wsState EXCEPT ![c] = "open"]
    /\ currentSessionId' = [currentSessionId EXCEPT ![c] = 0]
    /\ toClient' = [toClient EXCEPT ![c] =
                      <<[type |-> "SESSION_LIST", sessions |-> sessionList(sessions)]>>]
    /\ UNCHANGED <<sessions, toServer, cliVars>>

LinkNext ==
    \/ \E c \in Players, p \in Pieces : GestureDown(c, p)
    \/ \E c \in Players, delta \in Deltas : GestureMove(c, delta)
    \/ \E c \in Players : PointerUp(c)
    \/ \E c \in Clients : LinkClose(c)
    \/ \E c \in Clients : LinkReopen(c)
    \/ \E ws \in Sockets : ServerReceive(ws)
    \/ \E c \in Clients : ClientReceive(c)

LinkSpec == Init /\ [][LinkNext]_vars

\* the store of client c runs dragMove or dragEnd in this step
Emits(c) == (\E delta \in Deltas : GestureMove(c, delta)) \/ PointerUp(c)

\* C28: moves and merges are at-most-once. The messages in flight from a
\* client change only by the intents a dragMove or dragEnd writes to an open
\* socket, by the server taking the first one, which it applies once, and by
\* the loss of all of them when the socket closes; an intent emitted while
\* the socket is not open is dropped, and a new socket starts with nothing
\* to send.
IntentsAtMostOnce ==
    [][\A c \in Clients :
          /\ toServer'[c] # toServer[c] =>
                \/ /\ ServerReceive(c)
                   /\ toServer'[c] = Tail(toServer[c])
                   /\ LET msg == Head(toServer[c])
                      IN IF currentSessionId[c] = 0 THEN sessions' = sessions
                         ELSE CASE msg.type = "MOVE_PIECE" ->
                                     ServerStates(c)' = ApplyMove(ServerStates(c),
                                                            msg.pieceId, msg.position)
                                [] msg.type = "MERGE_GROUP" ->
                                     ServerStates(c)' = ApplyMerge(ServerStates(c),
                                                            msg.sourceGroupId,
                                                            msg.targetGroupId,
                                                            msg.alignOffset)
                                [] OTHER -> TRUE
                \/ /\ Emits(c)
                   /\ wsState[c] = "open"
                   /\ SubSeq(toServer'[c], 1, Len(toServer[c])) = toServer[c]
                   /\ \A i \in 1..Len(Emitted(c)) :
                         Emitted(c)[i].type \in {"MOVE_PIECE", "MERGE_GROUP"}
                \/ /\ LinkClose(c)
                   /\ toServer'[c] = << >>
          /\ (Emits(c) /\ wsState[c] # "open") => toServer'[c] = toServer[c]
          /\ LinkReopen(c) => toServer'[c] = << >>]_vars

\* a client moved a piece and reconnected, and the move was never applied:
\* nothing is in flight and the server has no PieceState
DroppedIntentNotResent ==
    \E c \in Clients :
        /\ nCloses > 0
        /\ wsState[c] = "open"
        /\ currentSessionId[c] = 0
        /\ toServer[c] = << >>
        /\ toClient[c] = << >>
        /\ draggedPieceId[c] # Null
        /\ pieceStates[c][draggedPieceId[c]].position # scatter[draggedPieceId[c]]
        /\ sessions[1].pieceStates = << >>

----------------------------------------------------------------------------
(* Sessions side by side *)

\* C29: a MOVE_PIECE applied in the session of its sender leaves every
\* other session as it was, and its delta is sent only to connections whose
\* current session is that session.
SessionsAreIndependent ==
    [][\A ws \in Sockets, msg \in MoveMessages(LobbyPieces, LobbyPositions) :
          Applies(ws, msg) =>
             /\ \A i \in 1..Len(sessions) :
                   i # currentSessionId[ws] => sessions'[i] = sessions[i]
             /\ \A w \in Sockets :
                   HasDelta(toClient'[w]) => currentSessionId[w] = currentSessionId[ws]]_vars

----------------------------------------------------------------------------
(* The relay: intents of both clients through the server to both mirrors *)

\* intents the two clients emit in a behaviour of RelaySpec, all together
MaxIntents == 3

\* the intents a client's dragMove and dragEnd emit here
RelayIntents ==
    {[type |-> "MOVE_PIECE", pieceId |-> "P1", position |-> <<5, 10, 0>>],
     [type |-> "MERGE_GROUP", sourceGroupId |-> "P1", targetGroupId |-> "P2",
      alignOffset |-> <<-1, 2, 0>>],
     [type |-> "MERGE_GROUP", sourceGroupId |-> "P2", targetGroupId |-> "P3",
      alignOffset |-> <<-1, -2, 0>>]}

\* the store of client c writes an intent to its socket; nMoves counts them
RelaySend(c, msg) ==
    /\ nMoves < MaxIntents
    /\ Send(c, <<msg>>)
    /\ nMoves' = nMoves + 1
    /\ UNCHANGED <<srvVars, pieceStates, draggedPieceId, snapCandidateGroupId,
                   nDrags, viewVars>>

RelayNext ==
    \/ \E c \in Clients, msg \in RelayIntents : RelaySend(c, msg)
    \/ \E ws \in Sockets : ServerReceive(ws)
    \/ \E c \in Clients : ClientReceive(c)

RelaySpec == Init /\ [][RelayNext]_vars

\* the GROUP_MERGED among the messages msgs, in their order
MergesOf(msgs) == SelectSeq(msgs, LAMBDA msg : msg.type = "GROUP_MERGED")

IsSuffix(s, t) == Len(s) <= Len(t) /\ s = SubSeq(t, Len(t) - Len(s) + 1, Len(t))

\* C30: the server applies each intent when it takes it from a connection
\* and, in the same step, puts its delta behind everything already on its way
\* to each recipient; a client takes its deltas from the front. So the merges
\* still on their way to two clients are in the same order: those of one
\* client are the last ones of the other.
DeltasInServerOrder ==
    [][/\ \A ws \in Sockets :
             ServerReceive(ws) =>
                LET msg == Head(toServer[ws])
                IN CASE msg.type = "MOVE_PIECE" ->
                          /\ ServerStates(ws)' = ApplyMove(ServerStates(ws),
                                                           msg.pieceId, msg.position)
                          /\ \A w \in Sockets :
                                toClient'[w] =
                                   IF w # ws
                                   THEN Append(toClient[w],
                                               PieceMoved(msg.pieceId, msg.position,
                                                  ServerStates(ws)'[msg.pieceId].groupId))
                                   ELSE toClient[w]
                     [] msg.type = "MERGE_GROUP" ->
                          /\ ServerStates(ws)' = ApplyMerge(ServerStates(ws),
                                                    msg.sourceGroupId, msg.targetGroupId,
                                                    msg.alignOffset)
                          /\ \A w \in Sockets :
                                toClient'[w] =
                                   Append(toClient[w],
                                          GroupMerged(msg.sourceGroupId, msg.targetGroupId,
                                                      msg.alignOffset))
                     [] OTHER -> TRUE
       /\ \A c \in Clients : ClientReceive(c) => toClient'[c] = Tail(toClient[c])
       /\ \A c, d \in Clients :
             \/ IsSuffix(MergesOf(toClient'[c]), MergesOf(toClient'[d]))
             \/ IsSuffix(MergesOf(toClient'[d]), MergesOf(toClient'[c]))]_vars

\* two different merges and a move are on their way to a client, and the
\* other client, which has taken the first merge, has the second one left
TwoMergesOnTheirWay ==
    \E c, d \in Clients :
        /\ c # d
        /\ Len(MergesOf(toClient[c])) = 2
        /\ MergesOf(toClient[c])[1] # MergesOf(toClient[c])[2]
        /\ \E i \in 1..Len(toClient[c]) : toClient[c][i].type = "PIECE_MOVED"
        /\ MergesOf(toClient[d]) = Tail(MergesOf(toClient[c]))

----------------------------------------------------------------------------
(* SocketService alone: connect, the socket's events, the reconnect timer *)

MaxCalls == 3
MaxLosses == 2

\* the WebSocket objects created so far
WebSockets == DOMAIN readyState

\* this.socket is a WebSocket that is open
IsOpen == socket # 0 /\ readyState[socket] = "OPEN"

\* the test connect() starts with: this.socket is open or connecting
IsLive == socket # 0 /\ readyState[socket] \in {"OPEN", "CONNECTING"}

\* connect(): nothing while this.socket is open or connecting; else a new
\* WebSocket becomes this.socket, or, when the constructor throws, another
\* connect is scheduled. pending is the number of timers without this one.
connect(throws, pending) ==
    IF IsLive
    THEN /\ UNCHANGED <<socket, readyState>>
         /\ timers' = pending
    ELSE IF throws
    THEN /\ UNCHANGED <<socket, readyState>>
         /\ timers' = pending + 1
    ELSE /\ readyState' = Append(readyState, "CONNECTING")
         /\ socket' = Len(readyState) + 1
         /\ timers' = pending

\* socket.onclose without the setTimeout
oncloseForgetting(s) ==
    /\ s \in WebSockets
    /\ readyState[s] = "CLOSING"
    /\ readyState' = [readyState EXCEPT ![s] = "CLOSED"]
    /\ socket' = 0
    /\ UNCHANGED <<timers, listeners, calls, nCalls, nCloses>>

\* socket.onclose: the close event of WebSocket s, which is then CLOSED
onclose(s) ==
    /\ s \in WebSockets
    /\ readyState[s] = "CLOSING"
    /\ readyState' = [readyState EXCEPT ![s] = "CLOSED"]
    /\ socket' = 0
    /\ timers' = timers + 1
    /\ UNCHANGED <<listeners, calls, nCalls, nCloses>>

\* socket.onopen: the connection of WebSocket s is established
onopen(s) ==
    /\ s \in WebSockets
    /\ readyState[s] = "CONNECTING"
    /\ readyState' = [readyState EXCEPT ![s] = "OPEN"]
    /\ UNCHANGED <<socket, timers, listeners, calls, nCalls, nCloses>>

\* the transport of WebSocket s is lost, or its connection attempt fails:
\* the socket is CLOSING until its close event is dispatched
TransportLoss(s) ==
    /\ nCloses < MaxLosses
    /\ s \in WebSockets
    /\ readyState[s] \in {"CONNECTING", "OPEN"}
    /\ readyState' = [readyState EXCEPT ![s] = "CLOSING"]
    /\ nCloses' = nCloses + 1
    /\ UNCHANGED <<socket, timers, listeners, calls, nCalls>>

\* the callback of setTimeout(() => this.connect(), 3000)
TimerFire(throws) ==
    /\ timers > 0
    /\ throws => nCloses < MaxLosses /\ ~IsLive
    /\ connect(throws, timers - 1)
    /\ nCloses' = IF throws THEN nCloses + 1 ELSE nCloses
    /\ UNCHANGED <<listeners, calls, nCalls>>

\* initSocket of the store: connect() and subscribe(callback)
initSocket(throws) ==
    /\ nCalls < MaxCalls
    /\ throws => nCloses < MaxLosses /\ ~IsLive
    /\ connect(throws, timers)
    /\ listeners' = listeners + 1
    /\ nCalls' = nCalls + 1
    /\ nCloses' = IF throws THEN nCloses + 1 ELSE nCloses
    /\ UNCHANGED calls

\* disconnect(): this.socket is closed and forgotten
disconnect ==
    /\ nCalls < MaxCalls
    /\ IF socket # 0
       THEN /\ readyState' = [readyState EXCEPT ![socket] =
                                IF @ \in {"CONNECTING", "OPEN"} THEN "CLOSING" ELSE @]
            /\ socket' = 0
       ELSE UNCHANGED <<socket, readyState>>
    /\ nCalls' = nCalls + 1
    /\ UNCHANGED <<timers, listeners, calls, nCloses>>

\* the service as its constructor leaves it
SocketInit ==
    /\ sessions = << >>
    /\ currentSessionId = [w \in Sockets |-> 0]
    /\ wsState = [w \in Sockets |-> "new"]
    /\ toClient = [w \in Sockets |-> << >>]
    /\ toServer = [w \in Sockets |-> << >>]
    /\ pieceStates = [c \in Clients |-> << >>]
    /\ draggedPieceId = [c \in Clients |-> Null]
    /\ snapCandidateGroupId = [c \in Clients |-> Null]
    /\ nDrags = 0
    /\ nMoves = 0
    /\ currentView = [c \in Clients |-> "lobby"]
    /\ isConnecting = [c \in Clients |-> FALSE]
    /\ pendingServerStates = [c \in Clients |-> << >>]
    /\ initMap = [c \in Clients |-> << >>]
    /\ nJoins = 0
    /\ nCloses = 0
    /\ socket = 0
    /\ readyState = << >>
    /\ timers = 0
    /\ listeners = 0
    /\ calls = 0
    /\ nCalls = 0
    /\ MockIdle

\* what the service leaves alone
OutsideService ==
    <<sessions, currentSessionId, wsState, toServer, toClient, pieceStates,
      draggedPieceId, snapCandidateGroupId, nDrags, nMoves, currentView,
      isConnecting, pendingServerStates, initMap, nJoins, mockVars>>

Opens == \E s \in WebSockets : onopen(s) /\ UNCHANGED OutsideService
Closes == \E s \in WebSockets : onclose(s) /\ UNCHANGED OutsideService
Fires == \E throws \in BOOLEAN : TimerFire(throws) /\ UNCHANGED OutsideService

SocketNext ==
    \/ \E throws \in BOOLEAN : initSocket(throws) /\ UNCHANGED OutsideService
    \/ disconnect /\ UNCHANGED OutsideService
    \/ \E s \in WebSockets : TransportLoss(s) /\ UNCHANGED OutsideService
    \/ Opens
    \/ Closes
    \/ Fires

SocketSpec == SocketInit /\ [][SocketNext]_vars

\* the server is reachable, events are dispatched and timers expire: a
\* connecting socket opens, a closing one gets its close event, a pending
\* timer fires
ReconnectSpec ==
    SocketSpec /\ WF_vars(Opens) /\ WF_vars(Closes) /\ WF_vars(Fires)

\* a close event has been dispatched, or a connect has been rescheduled
Lost == timers > 0

\* C31: whenever a socket has closed or could not be created, so that a
\* connect attempt is pending, the client eventually has an open socket
\* again, provided the server is reachable.
ReconnectsAfterLoss == Lost ~> IsOpen

\* a socket was closed and the service holds an open socket again
ReconnectedAfterClose ==
    /\ \E s \in WebSockets : readyState[s] = "CLOSED"
    /\ IsOpen

----------------------------------------------------------------------------
(* Membership of a connection in the sessions' connection sets *)

\* the sessions of ss whose players hold the connection ws
MemberOf(ss, ws) == {i \in 1..Len(ss) : ws \in ss[i].players}

\* C32: a connection is in the connection set of at most one session at any
\* time, whatever JOIN_SESSION, LEAVE_SESSION and close events the server
\* has handled, and a closed connection is in none.
MemberOfAtMostOneSession ==
    \A ws \in Sockets :
        /\ Cardinality(MemberOf(sessions, ws)) <= 1
        /\ wsState[ws] = "closed" => MemberOf(sessions, ws) = {}

----------------------------------------------------------------------------
(* Deltas that arrive while GameView initializes *)

\* nothing is in flight to client c and nothing is in flight to the server
Settled(c) == toClient[c] = << >> /\ \A w \in Sockets : toServer[w] = << >>

\* C33: no delta is lost while a client initializes: when setPuzzleRegions
\* builds the mirror and every PIECE_MOVED and GROUP_MERGED sent to the
\* client since its SESSION_JOINED has reached its listener, the mirror
\* holds every piece the server has a state for as the server has it.
NoDeltaLostDuringInit ==
    [][\A c \in Clients :
         (Settled(c) /\ currentSessionId[c] # 0 /\ InitEnd(c)) =>
            \A p \in DOMAIN ServerStates(c) :
               pieceStates'[c][p] = ServerStates(c)[p]]_vars

----------------------------------------------------------------------------
(* The MERGE_GROUP of dragEnd after remote deltas *)

\* C34: every MERGE_GROUP a client emits at dragEnd names two different
\* groups, and its target group has a member in the client's mirror at that
\* moment, also when remote deltas were applied after the last dragMove.
MergeIntentIsWellFormed ==
    [][\A c \in Clients :
         (Len(toServer'[c]) > Len(toServer[c]) /\ PointerUp(c)) =>
            LET msg == toServer'[c][Len(toServer'[c])]
            IN msg.type = "MERGE_GROUP" =>
                  /\ msg.sourceGroupId # msg.targetGroupId
                  /\ GroupPieces(pieceStates[c], msg.targetGroupId) # << >>]_vars

----------------------------------------------------------------------------
(* The session of a client whose socket was replaced *)

\* C35: an intent of a client that is in the game view, sent on the socket
\* it has after a reconnect, finds the client a member of its session: the
\* server applies the MOVE_PIECE or MERGE_GROUP to the session's pieces.
ReconnectedClientIsMember ==
    [][\A c \in Clients :
         (/\ toServer[c] # << >>
          /\ currentView[c] = "game"
          /\ Head(toServer[c]).type \in {"MOVE_PIECE", "MERGE_GROUP"}
          /\ ServerReceive(c))
            => LET msg == Head(toServer[c])
               IN /\ currentSessionId[c] # 0
                  /\ c \in sessions[currentSessionId[c]].players
                  /\ IF msg.type = "MOVE_PIECE"
                     THEN ServerStates(c)' = ApplyMove(ServerStates(c), msg.pieceId,
                                                       msg.position)
                     ELSE ServerStates(c)' = ApplyMerge(ServerStates(c),
                                                        msg.sourceGroupId,
                                                        msg.targetGroupId,
                                                        msg.alignOffset)]_vars

----------------------------------------------------------------------------
(* A client that joins a session the other client has completed *)

\* the client that joins late
Latecomers == {2}

\* client 1 has joined a fresh session and built its mirror; client 2 is in
\* the lobby
LateInit ==
    /\ sessions = << [mapId |-> TheMap, difficulty |-> TheDifficulty,
                      players |-> Players, pieceStates |-> << >>,
                      config |-> 1, status |-> "active"] >>
    /\ currentSessionId = [w \in Sockets |-> IF w \in Players THEN 1 ELSE 0]
    /\ wsState = [w \in Sockets |-> "open"]
    /\ toServer = [w \in Sockets |-> << >>]
    /\ toClient = [w \in Sockets |-> << >>]
    /\ pieceStates = [c \in Clients |->
                        IF c \in Players THEN InitialStates(<< >>) ELSE << >>]
    /\ draggedPieceId = [c \in Clients |-> Null]
    /\ snapCandidateGroupId = [c \in Clients |-> Null]
    /\ nDrags = 0
    /\ nMoves = 0
    /\ currentView = [c \in Clients |-> IF c \in Players THEN "game" ELSE "lobby"]
    /\ isConnecting = [c \in Clients |-> FALSE]
    /\ pendingServerStates = [c \in Clients |-> << >>]
    /\ initMap = [c \in Clients |-> << >>]
    /\ nJoins = 0
    /\ nCloses = 0
    /\ ServiceConnected
    /\ MockIdle

LateNext ==
    \/ \E c \in Players, p \in Pieces : GestureDown(c, p)
    \/ \E c \in Players, delta \in Deltas : GestureMove(c, delta)
    \/ \E c \in Clients : PointerUp(c)
    \/ \E c \in Latecomers : JoinClick(c)
    \/ \E c \in Latecomers : InitStart(c)
    \/ \E c \in Latecomers : InitEnd(c)
    \/ \E c \in Latecomers, p \in Pieces : PointerDown(c, p)
    \/ \E ws \in Sockets : ServerReceive(ws)
    \/ \E c \in Clients : ClientReceive(c)

LateSpec == LateInit /\ [][LateNext]_vars

\* the session of client c has been completed: some other client's view is
\* complete, the server has applied every intent, and all the pieces the
\* server has are in one group
SessionCompleted(c) ==
    /\ currentSessionId[c] # 0
    /\ \A w \in Sockets : toServer[w] = << >>
    /\ \E d \in Clients \ {c} : currentSessionId[d] = currentSessionId[c] /\ isComplete(d)
    /\ GroupCount(ServerStates(c)) = 1

\* C36: when a client builds its mirror from the piece states of a session
\* whose pieces have all been merged into one group, every piece of the
\* mirror is solved, so that no drag can start on it.
LateJoinerFindsSessionComplete ==
    [][\A c \in Clients :
         (/\ SessionCompleted(c)
          /\ initMap[c] # << >>
          /\ Head(initMap[c]) = ServerStates(c)
          /\ InitEnd(c))
            => \A p \in DOMAIN pieceStates'[c] : pieceStates'[c][p].isSolved]_vars

----------------------------------------------------------------------------
(* The Lobby mounting again: initSocket on every return to the lobby *)

\* the Lobby's effect after a mount, for the client the service belongs to:
\* the Lobby has mounted once at the start and once per return to the lobby,
\* and each mount calls initSocket, whose connect() finds the socket open
LobbyMount(c) ==
    /\ currentView[c] = "lobby"
    /\ ~isConnecting[c]
    /\ listeners <= nJoins
    /\ IsLive
    /\ listeners' = listeners + 1
    /\ UNCHANGED <<socket, readyState, timers, calls, nCalls>>
    /\ UNCHANGED <<srvVars, toServer, pieceStates, draggedPieceId, snapCandidateGroupId,
                   nDrags, nMoves, storeVars, mockVars>>

\* the GROUP_MERGED case of the listener run n times, one callback after
\* the other
RECURSIVE MergedTimes(_, _, _)
MergedTimes(states, msg, n) ==
    IF n = 0 THEN states
    ELSE MergedTimes(CheckCompletion(Relabel(states, msg.sourceGroupId,
                                             msg.targetGroupId, msg.alignOffset)),
                     msg, n - 1)

\* socket.onmessage: this.listeners.forEach(cb => cb(msg)); every callback is
\* the listener of initSocket, and all of them but GROUP_MERGED leave the
\* store as the first call left it
onmessage(c) ==
    /\ IsOpen
    /\ toClient[c] # << >>
    /\ LET msg == Head(toClient[c])
       IN IF msg.type = "GROUP_MERGED"
          THEN /\ pieceStates' = [pieceStates EXCEPT ![c] = MergedTimes(@, msg, listeners)]
               /\ UNCHANGED <<draggedPieceId, snapCandidateGroupId, storeVars>>
          ELSE Listener(c, msg)
    /\ calls' = listeners
    /\ toClient' = [toClient EXCEPT ![c] = Tail(@)]
    /\ UNCHANGED <<sessions, currentSessionId, wsState, toServer, nDrags, nMoves,
                   socket, readyState, timers, listeners, nCalls, mockVars>>

MountNext ==
    \/ \E c \in Players : JoinClick(c)
    \/ \E c \in Players : InitStart(c)
    \/ \E c \in Players : InitEnd(c)
    \/ \E c \in Players : LeaveClick(c)
    \/ \E c \in Players, p \in Pieces : VisitDown(c, p)
    \/ \E c \in Players, delta \in Deltas : VisitMove(c, delta)
    \/ \E c \in Players : PointerUp(c)
    \/ \E c \in Players : LobbyMount(c)
    \/ \E c \in Players : onmessage(c)
    \/ \E ws \in Sockets : ServerReceive(ws)

MountSpec == VisitInit /\ [][MountNext]_vars

\* C37: each message the server sends to a client is applied to the
\* client's store exactly once, however often initSocket has been called:
\* socket.onmessage runs the store's listener once.
MessageAppliedOnce ==
    [][\A c \in Players : onmessage(c) => calls' = 1]_vars

----------------------------------------------------------------------------
(* The WebSockets of one SocketService *)

\* the WebSockets whose connection is open or being opened
LiveSockets == {s \in WebSockets : readyState[s] \in {"CONNECTING", "OPEN"}}

\* C38: SocketService holds at most one WebSocket that is open or connecting
\* at any time, under every interleaving of connect(), disconnect(), close
\* events and reconnect timers, so that no two sockets dispatch the server's
\* messages to the listeners.
AtMostOneLiveSocket == Cardinality(LiveSockets) <= 1

----------------------------------------------------------------------------
(* joinSession over a socket that may be closed *)

JoinNext ==
    \/ \E c \in Clients : JoinClick(c)
    \/ \E c \in Clients : InitStart(c)
    \/ \E c \in Clients : InitEnd(c)
    \/ \E c \in Clients : LeaveClick(c)
    \/ \E c \in Clients : LinkClose(c)
    \/ \E c \in Clients : LinkReopen(c)
    \/ \E ws \in Sockets : ServerReceive(ws)
    \/ \E c \in Clients : ClientReceive(c)

\* the server handles every message it is sent, every message it sends
\* reaches the listener, and a closed socket is replaced
JoinSpec ==
    /\ VisitInit
    /\ [][JoinNext]_vars
    /\ \A ws \in Sockets : WF_vars(ServerReceive(ws))
    /\ \A c \in Clients : WF_vars(ClientReceive(c))
    /\ \A c \in Clients : WF_vars(LinkReopen(c))

\* C39: every joinSession call eventually leaves the connecting state: once
\* isConnecting is true the client eventually is in the game view with
\* isConnecting false, whatever the state of the socket at the call.
JoinEventuallyAnswered ==
    \A c \in Clients :
        isConnecting[c] ~> (currentView[c] = "game" /\ ~isConnecting[c])

----------------------------------------------------------------------------
(* MockBackendService: joinSession calls and the random updates *)

MaxMockJoins == 3
MaxPlayers == 3

MockMaps == {"caloris"}
MockDifficulties == {"medium", "hard"}

\* MOCK_SESSIONS.find(s => s.mapId === mapId && s.difficulty === difficulty):
\* the index of the first such session, 0 when there is none
FindMock(ss, mapId, difficulty) ==
    LET found == {i \in 1..Len(ss) : ss[i].mapId = mapId /\ ss[i].difficulty = difficulty}
    IN IF found = {} THEN 0 ELSE CHOOSE i \in found : \A j \in found : i <= j

\* the update without the line that brings a negative count back to 0
ClampedNot(n) == n

\* if (target.activePlayers < 0) target.activePlayers = 0
Clamped(n) == IF n < 0 THEN 0 ELSE n

\* joinSession up to its await: the call waits for its delay
joinSessionCall(mapId, difficulty) ==
    /\ nJoins < MaxMockJoins
    /\ joining' = Append(joining, <<mapId, difficulty>>)
    /\ nJoins' = nJoins + 1
    /\ UNCHANGED <<MOCK_SESSIONS, returned>>

\* joinSession after its await, for the i-th waiting call: the session of
\* the pair gets one more player, or a new session with one player is pushed
joinSessionResume(i) ==
    /\ i \in 1..Len(joining)
    /\ LET mapId == joining[i][1]
           difficulty == joining[i][2]
           existing == FindMock(MOCK_SESSIONS, mapId, difficulty)
       IN IF existing # 0
          THEN /\ MOCK_SESSIONS' = [MOCK_SESSIONS EXCEPT
                                       ![existing].activePlayers = @ + 1]
               /\ returned' = existing
          ELSE /\ MOCK_SESSIONS' = Append(MOCK_SESSIONS,
                                     [mapId |-> mapId, difficulty |-> difficulty,
                                      activePlayers |-> 1, status |-> "active"])
               /\ returned' = Len(MOCK_SESSIONS) + 1
    /\ joining' = SubSeq(joining, 1, i - 1) \o SubSeq(joining, i + 1, Len(joining))
    /\ UNCHANGED nJoins

\* simulateRandomUpdate when Math.random() > 0.7: the session drawn gains
\* or loses a player, never going below 0, and is available at 0
simulateRandomUpdate(target, change) ==
    /\ target \in 1..Len(MOCK_SESSIONS)
    /\ MOCK_SESSIONS[target].activePlayers + change <= MaxPlayers
    /\ LET n == Clamped(MOCK_SESSIONS[target].activePlayers + change)
       IN MOCK_SESSIONS' = [MOCK_SESSIONS EXCEPT
                               ![target].activePlayers = n,
                               ![target].status = IF n = 0 THEN "available" ELSE @]
    /\ UNCHANGED <<joining, returned, nJoins>>

\* what the mock backend leaves alone
OutsideMock ==
    <<sessions, currentSessionId, wsState, toServer, toClient, pieceStates,
      draggedPieceId, snapCandidateGroupId, nDrags, nMoves, currentView,
      isConnecting, pendingServerStates, initMap, nCloses, svcVars>>

MockInit == SocketInit

MockNext ==
    \/ \E mapId \in MockMaps, difficulty \in MockDifficulties :
          joinSessionCall(mapId, difficulty) /\ UNCHANGED OutsideMock
    \/ \E i \in 1..Len(joining) : joinSessionResume(i) /\ UNCHANGED OutsideMock
    \/ \E target \in 1..Len(MOCK_SESSIONS), change \in {1, -1} :
          simulateRandomUpdate(target, change) /\ UNCHANGED OutsideMock

MockSpec == MockInit /\ [][MockNext]_vars

\* activePlayers of the k-th session of ss, 0 for a session not yet there
ActivePlayersOf(ss, k) == IF k \in 1..Len(ss) THEN ss[k].activePlayers ELSE 0

\* no two sessions of ss have the same (mapId, difficulty) pair and none has
\* a negative activePlayers
MockConsistent(ss) ==
    /\ \A i, j \in 1..Len(ss) :
          (ss[i].mapId = ss[j].mapId /\ ss[i].difficulty = ss[j].difficulty) => i = j
    /\ \A i \in 1..Len(ss) : ss[i].activePlayers >= 0

\* C40: in MockBackendService, whatever the interleaving of joinSession
\* calls and random updates, there is at most one session per (mapId,
\* difficulty) pair, no activePlayers is negative, and a joinSession that
\* completes returns the session of its pair with activePlayers raised by
\* exactly one.
MockJoinsAreCounted ==
    [][/\ MockConsistent(MOCK_SESSIONS)
       /\ MockConsistent(MOCK_SESSIONS')
       /\ \A i \in 1..Len(joining) :
             joinSessionResume(i) =>
                /\ returned' = FindMock(MOCK_SESSIONS', joining[i][1], joining[i][2])
                /\ ActivePlayersOf(MOCK_SESSIONS', returned')
                      = ActivePlayersOf(MOCK_SESSIONS, returned') + 1
                /\ \A k \in 1..Len(MOCK_SESSIONS) :
                      k # returned' => MOCK_SESSIONS'[k] = MOCK_SESSIONS[k]]_vars

\* two concurrent calls for a new pair have completed, the second one while a
\* third waited, and a random update has emptied a session
ConcurrentJoinsCompleted ==
    /\ Len(MOCK_SESSIONS) = 3
    /\ returned = 3
    /\ MOCK_SESSIONS[3].activePlayers = 2
    /\ joining # << >>
    /\ \E k \in 1..2 : MOCK_SESSIONS[k].activePlayers = 0

====
